---- MODULE Spec2Model ----
(***************************************************************************)
(* Swill: the per-connection RPC multiplexer (server/swill/app.py), the    *)
(* per-call request/response objects (_request.py, _response.py) and the   *)
(* connection loop (asgi.py), as one state machine.                        *)
(*                                                                         *)
(* Scheduling is asyncio's: a task runs without interruption up to its     *)
(* next await that really suspends.  The places where a task can be        *)
(* suspended are the lifecycle hooks (user callbacks), the handler's own   *)
(* code and the wait of a streaming request's queue; Queue.put on the      *)
(* unbounded send queue never suspends.  Each action below is one such     *)
(* uninterrupted segment of one task.                                      *)
(***************************************************************************)
EXTENDS Integers, Sequences, FiniteSets, TLC

\* ---- bounds -------------------------------------------------------------
MaxFrames == 2      \* inbound websocket.receive events on the connection
MaxYield == 2       \* items one stream-out handler yields
MaxOps == 1         \* metadata operations the handlers perform on their Responses
MaxFaults == 1      \* exceptions raised by hooks and handlers on the connection
MaxAdd == 2         \* items added to a helper StreamingQueue
MaxObs == 3         \* observations the consumer of a helper StreamingQueue makes
MaxFeedFrames == 3  \* inbound websocket.receive events in SpecFeed
MaxResponseOps == 3 \* method calls made on a Response taken by itself
MaxInt == 2         \* the values and bounds handed to a comparison constraint: -MaxInt..MaxInt
MaxValidators == 3  \* validators of one ValidatedStruct class
MaxItems == 2       \* items in a list field of a ValidatedStruct

\* ---- values -------------------------------------------------------------
None == 0

Seqs == {1}

Results == {7}

\* Swill._handlers: the registered RPCs, one per call shape, and "ug", which
\* is declared unary-out while its function is an async generator function
\* (generator: handler.func(...) returns an async generator).
_handlers ==
    [ uu |-> [request_streams |-> FALSE, response_streams |-> FALSE, generator |-> FALSE],
      us |-> [request_streams |-> FALSE, response_streams |-> TRUE,  generator |-> TRUE],
      su |-> [request_streams |-> TRUE,  response_streams |-> FALSE, generator |-> FALSE],
      ss |-> [request_streams |-> TRUE,  response_streams |-> TRUE,  generator |-> TRUE],
      ug |-> [request_streams |-> FALSE, response_streams |-> FALSE, generator |-> TRUE] ]

RPCs == DOMAIN _handlers

\* rpc names a client may put in a frame: those of the handlers that are
\* what they are declared to be, and "nf", which is not registered.
WireRPCs == {"uu", "us", "su", "ss", "nf"}

RequestType == {"MESSAGE", "END_OF_STREAM", "METADATA", "CANCEL"}

ResponseType == {"MESSAGE", "END_OF_STREAM", "METADATA", "ERROR"}

INTERNAL_ERROR == 500

NOT_FOUND == 404

BAD_REQUEST == 400

VALIDATION_ERROR == 422

\* CloseConnection(code=...): one code below 1000 and one websocket status.
CloseCodes == {500, 1003}

\* What user code raises: any exception, Error(code=BAD_REQUEST) or
\* CloseConnection(code=c).
Exceptions ==
    {[class |-> "Exception", code |-> None, message |-> "boom"],
     [class |-> "Error", code |-> BAD_REQUEST, message |-> "bad request"]}
    \cup {[class |-> "CloseConnection", code |-> c, message |-> ""] : c \in CloseCodes}

\* The message of handle_catch_all.
GenericMessage == "An internal server error occurred"

\* RequestReference(rpc, seq)
RequestReference(rpc, seq) == <<rpc, seq>>

Keys == RPCs \X Seqs

\* The bytes of a websocket.receive event: "valid" bytes decode all the way,
\* "invalid" ones decode to an envelope whose data fails validate_constraints
\* (SwillValidationError), "malformed" ones are no envelope at all
\* (msgspec.DecodeError).
Payloads == {"valid", "invalid", "malformed"}

\* EncapsulatedRequest: the n-th frame on the wire carries payload n, and a
\* METADATA frame carries metadata n.
EncapsulatedRequest(rpc, seq, type, n) ==
    [rpc |-> rpc, seq |-> seq, type |-> type, data |-> n,
     metadata |-> IF type = "METADATA" THEN n ELSE None, payload |-> "valid"]

\* ---- state --------------------------------------------------------------
VARIABLES
    tasks,      \* the per-frame tasks the connection loop spawned, in order
    calls,      \* every (request, response) pair ever created, in order
    requests,   \* connection.requests: key -> index into calls, or None
    sendQueue,  \* Connection._send_queue
    enqueued,   \* history: every frame ever put on the send queue
    sendTask,   \* result of the loop's send task, <<>> while it waits
    written,    \* history: frames handed to the transport as websocket.send
    conn,       \* "open" while the connection loop runs, "closed" after it
    ops,        \* history: metadata operations performed so far
    faults,     \* history: exceptions raised by user code so far
    closes,     \* history: the websocket.close events handed to the transport
    sq,         \* a _helpers.StreamingQueue and the one consumer iterating it
    hs,         \* one AsgiApplication.__call__: the handshake and the lifecycle
    rs,         \* a Response taken by itself and the one task calling its methods
    vs          \* one call of a validator: its input and how it ended

\* The state of the connection and its calls.
appVars == <<tasks, calls, requests, sendQueue, enqueued, sendTask, written, conn,
             ops, faults, closes>>

\* The state of the helper objects and of the handshake, which no open
\* connection touches.
helperVars == <<sq, hs, rs, vs>>

vars == <<appVars, helperVars>>

\* ---- outbound envelopes -------------------------------------------------
\* serialize_response(**kwargs); the field call is a history tag naming the
\* call the frame was produced for (None for a frame of no call).
serialize_response(c, type, seq, data, leading_metadata, trailing_metadata) ==
    [call |-> c, type |-> type, seq |-> seq, data |-> data, code |-> None,
     message |-> "", leading_metadata |-> leading_metadata,
     trailing_metadata |-> trailing_metadata]

\* serialize_error_response(code=, seq=, message=)
serialize_error_response(c, code, seq, message) ==
    [call |-> c, type |-> "ERROR", seq |-> seq, data |-> None, code |-> code,
     message |-> message, leading_metadata |-> None, trailing_metadata |-> None]

\* Swill._handle_exception: the handler registered for the exact class of
\* the exception, else handle_catch_all; the code of the ERROR frame it sends.
_handle_exception(exception) ==
    IF exception.class = "HandlerNotFound" THEN NOT_FOUND
    ELSE IF exception.class = "Error" THEN exception.code
    ELSE INTERNAL_ERROR

handled_message_of_catch_all(exception) == GenericMessage

\* The message of the ERROR frame the chosen handler sends: str(exception)
\* from handle_error and handle_not_found, the generic one from
\* handle_catch_all.
handled_message(exception) ==
    IF exception.class \in {"HandlerNotFound", "Error"} THEN exception.message
    ELSE GenericMessage

\* An exception object of the given class, raised by swill itself.
Raise(class) == [class |-> class, code |-> None, message |-> class]

handle_not_found_as_catch_all(message) ==
    serialize_error_response(None, INTERNAL_ERROR, message.seq, GenericMessage)

\* handle_not_found: the ERROR frame for a frame that names no handler.
handle_not_found(message) ==
    serialize_error_response(None, NOT_FOUND, message.seq,
                             handled_message(Raise("HandlerNotFound")))

\* The websocket.close event of AsgiApplication.__call__ for CloseConnection e.
websocket_close(e) ==
    [type |-> "websocket.close", code |-> IF e.code >= 1000 THEN e.code ELSE 1000]

\* The frame of Response.send_leading_metadata.
MetadataFrame(c, r, leading) ==
    serialize_response(c, "METADATA", r.seq, None, leading, None)

\* The frame of _process_single_response.
SingleResponse(c, r, leading) ==
    serialize_response(c, "MESSAGE", r.seq, r.result, leading, r.trailing_metadata)

StreamMessageWithTrailing(c, r, leading) ==
    serialize_response(c, "MESSAGE", r.seq, r.result, leading, r.trailing_metadata)

\* The frame _process_streaming_response sends for a yielded item.
StreamMessage(c, r, leading) ==
    serialize_response(c, "MESSAGE", r.seq, r.result, leading, None)

\* The frame _process_streaming_response sends when the generator is done.
EndOfStream(c, r, leading) ==
    serialize_response(c, "END_OF_STREAM", r.seq, None, leading, r.trailing_metadata)

NewCallOfOldKey(message) ==
    LET old == {c \in 1..Len(calls) :
                    calls[c].rpc = message.rpc /\ calls[c].seq = message.seq}
    IN  [rpc |-> message.rpc, seq |-> message.seq,
         metadata |-> message.metadata, data |-> None,
         cancelled |-> \E c \in old : calls[c].cancelled,
         ended |-> \E c \in old : calls[c].ended,
         opening_request |-> TRUE,
         queue |-> <<>>, close_event |-> FALSE, cancel_event |-> FALSE,
         leading_metadata |-> None,
         leading_metadata_sent |-> \E c \in old : calls[c].leading_metadata_sent,
         trailing_metadata |-> None,
         result |-> None, cont |-> "none",
         iter |-> "open", observed |-> <<>>, yields |-> 0, invoked |-> 0,
         after_request |-> 0, raised |-> FALSE, returned |-> FALSE,
         closed |-> FALSE, exception |-> <<>>, at_close |-> 0,
         hooks |-> <<"before_request">>, dropped |-> FALSE]

\* Request / StreamingRequest and its Response, as created by
\* Swill._create_request and Response(self, request).
NewCall(message) ==
    [rpc |-> message.rpc, seq |-> message.seq,
     \* BaseRequest / StreamingRequest
     metadata |-> message.metadata, data |-> None, cancelled |-> FALSE,
     ended |-> FALSE, opening_request |-> TRUE,
     queue |-> <<>>, close_event |-> FALSE, cancel_event |-> FALSE,
     \* Response
     leading_metadata |-> None, leading_metadata_sent |-> FALSE,
     trailing_metadata |-> None,
     \* the dispatcher's locals
     result |-> None, cont |-> "none",
     \* history (at_close: the items that had been added when close was set;
     \* dropped: a result or item reached the dispatcher of the cancelled call)
     iter |-> "open", observed |-> <<>>, yields |-> 0, invoked |-> 0,
     after_request |-> 0, raised |-> FALSE, returned |-> FALSE,
     closed |-> FALSE, exception |-> <<>>, at_close |-> 0,
         hooks |-> <<"before_request">>, dropped |-> FALSE]

\* _helpers.StreamingQueue(): an empty queue, both events clear; pc is the
\* position of the consumer ("idle", or "wait" inside asyncio.wait), added
\* counts the items added, waits the observations that reached asyncio.wait,
\* results records how each observation ended and closed_at_entry whether
\* close() had been called when the last observation began.
StreamingQueue ==
    [_queue |-> <<>>, _close_event |-> FALSE, _cancel_event |-> FALSE,
     pc |-> "idle", added |-> 0, waits |-> 0, results |-> <<>>,
     closed_at_entry |-> FALSE]

\* codes a CloseConnection raised around the handshake may carry
HandshakeCodes == {-1, 100, 199, 200, 406, 999, 1000, 1003}

\* What a lifecycle hook raises: CloseConnection(code=c) or something else.
HandshakeExceptions ==
    {[class |-> "CloseConnection", code |-> c] : c \in HandshakeCodes}
    \cup {[class |-> "Exception", code |-> None]}

\* The status a before_connection hook may leave in an http_response: that
\* of a fresh werkzeug Response, an informational one and an error.
HookStatus == {200, 100, 401}

\* ConnectionData.subprotocol and one subprotocol the server does not speak
Subprotocols == {"swill/1", "graphql-ws"}

\* The ASGI scopes a server hands to the application; path_known says
\* whether scope['path'] is one of AsgiApplication.paths.
Scopes ==
    [type : {"websocket", "http"}, path_known : BOOLEAN,
     subprotocols : SUBSET Subprotocols]

\* An AsgiApplication before it is called: pc is the position inside
\* __call__, event the event the handshake received, sent the events handed
\* to the transport, lifecycle the lifecycle handlers and the loop in the
\* order they were entered, raised the exception that left __call__, e the
\* CloseConnection the handshake caught and pending the exception that waits
\* for the finally block.
AsgiApplication ==
    [pc |-> "call",
     scope |-> [type |-> "", path_known |-> FALSE, subprotocols |-> {}],
     event |-> "", attributes |-> {}, status_code |-> None,
     sent |-> <<>>, lifecycle |-> <<>>, raised |-> "none", e |-> None,
     pending |-> "none"]

\* Response(swill, request) for a request of seq 1: the class attributes,
\* the position of the calling task (pc "idle", or inside the
\* before_leading_metadata hook with cont saying which method awaits it),
\* the frames it sent and a log of the finished method calls.
Response ==
    [seq |-> 1, _leading_metadata |-> None, _leading_metadata_sent |-> FALSE,
     _trailing_metadata |-> None,
     pc |-> "idle", cont |-> "none", was |-> None, sends |-> <<>>, log |-> <<>>]

\* A task of the connection: asyncio.create_task gives it a copy of the
\* loop's context, in which current_request and current_response are not
\* set (None).
NewTask(message) ==
    [frame |-> message, pc |-> "start", role |-> "none", call |-> None,
     cancel |-> FALSE, exception |-> "none",
     current_request |-> None, current_response |-> None]

Init ==
    /\ tasks = <<>>
    /\ calls = <<>>
    /\ requests = [k \in Keys |-> None]
    /\ sendQueue = <<>>
    /\ enqueued = <<>>
    /\ sendTask = <<>>
    /\ written = <<>>
    /\ conn = "accepted"
    /\ ops = 0
    /\ faults = 0
    /\ closes = <<>>
    /\ sq = StreamingQueue
    /\ hs = AsgiApplication
    /\ rs = Response
    /\ vs = [pc |-> "idle"]

\* ---- helpers ------------------------------------------------------------
Key(c) == RequestReference(calls[c].rpc, calls[c].seq)

request_streams(c) == _handlers[calls[c].rpc].request_streams

response_streams(c) == _handlers[calls[c].rpc].response_streams

\* _lifecycle_handlers: the hooks around one call.
LifecycleHooks ==
    {"before_request", "before_request_message", "before_leading_metadata",
     "before_response_message", "before_trailing_metadata", "after_request"}

\* History: the call notes each lifecycle hook its dispatch enters (pc is
\* the position the task moves to).
Entered(i, pc, newCalls) ==
    IF tasks[i].role = "call" /\ pc \in LifecycleHooks
    THEN [newCalls EXCEPT ![tasks[i].call].hooks = Append(@, pc)]
    ELSE newCalls

\* One uninterrupted segment of task i: it moves to pc, leaves the calls and
\* the live-call map as given and puts the frames of out on the send queue
\* (Connection.send: Queue.put on an unbounded queue, which never suspends).
\* reset: the segment runs the reset calls of the task's context variables.
SegmentReset(i, pc, newCalls, newRequests, out, reset) ==
    /\ tasks' = [tasks EXCEPT ![i].pc = pc, ![i].cancel = FALSE,
                              ![i].current_request = IF reset THEN None ELSE @,
                              ![i].current_response = IF reset THEN None ELSE @]
    /\ calls' = Entered(i, pc, newCalls)
    /\ requests' = newRequests
    /\ sendQueue' = sendQueue \o out
    /\ enqueued' = enqueued \o out
    /\ UNCHANGED <<sendTask, written, conn, closes, helperVars>>

\* A segment of a feed that ends the task has gone through the finally
\* block of _feed_request.
Segment(i, pc, newCalls, newRequests, out) ==
    SegmentReset(i, pc, newCalls, newRequests, out,
                 pc = "done" /\ tasks[i].role = "feed")

FinallyKeepsKey(i, c, newCalls, out) ==
    Segment(i, "after_request",
            [newCalls EXCEPT ![c].after_request = @ + 1], requests, out)

\* The finally block of Swill._handle_request for call c: the key is
\* deleted from connection.requests if present, then after_request is
\* called (the task is suspended in the hook).
Finally(i, c, newCalls, out) ==
    Segment(i, "after_request",
            [newCalls EXCEPT ![c].after_request = @ + 1],
            [requests EXCEPT ![Key(c)] = None], out)

ExceptInSilently(i, c, newCalls, code) ==
    Finally(i, c,
            [newCalls EXCEPT ![c].raised = TRUE,
                             ![c].closed = @ \/ (response_streams(c) /\ calls[c].invoked > 0)],
            <<>>)

\* An exception leaves the dispatch of call c: closing_response closes the
\* generator, _handle_exception picks the handler by the exact class and
\* enqueues one ERROR frame with the seq of the opening frame, then the
\* finally block runs.
ExceptIn(i, c, newCalls, code) ==
    Finally(i, c,
            [newCalls EXCEPT ![c].raised = TRUE,
                             ![c].closed = @ \/ (response_streams(c) /\ calls[c].invoked > 0)],
            <<serialize_error_response(c, code, tasks[i].frame.seq, GenericMessage)>>)

Except(i, c, code) == ExceptIn(i, c, calls, code)

\* deserialize_message: what decoding the data of a frame raises.
deserialize_message(message) ==
    IF message.payload = "invalid" THEN "SwillValidationError" ELSE "none"

\* Request.process_message / StreamingRequest.process_message up to its
\* first suspension: the new state of the request, how the call ended
\* ("ok", "raise", or "hook" when before_request_message is awaited) and
\* the class of the exception raised.
process_message(r, message) ==
    IF ~_handlers[r.rpc].request_streams
    THEN IF message.type = "MESSAGE"
         THEN IF deserialize_message(message) # "none"
              THEN [request |-> r, out |-> "raise",
                    exception |-> deserialize_message(message)]
              ELSE [request |-> [r EXCEPT !.data = message.data], out |-> "ok",
                    exception |-> "none"]
         ELSE IF message.type = "CANCEL"
         THEN [request |-> [r EXCEPT !.cancelled = TRUE], out |-> "ok",
               exception |-> "none"]
         ELSE [request |-> r, out |-> "raise", exception |-> "SwillException"]
    ELSE IF message.type = "CANCEL"
         THEN [request |-> [r EXCEPT !.cancelled = TRUE, !.cancel_event = TRUE],
               out |-> "ok", exception |-> "none"]
         ELSE IF message.type = "END_OF_STREAM"
         THEN [request |-> [r EXCEPT !.close_event = TRUE, !.ended = TRUE,
                                     !.at_close = IF r.close_event THEN @
                                                  ELSE Len(r.observed) + Len(r.queue)],
               out |-> "ok", exception |-> "none"]
         ELSE IF r.ended
         THEN [request |-> r, out |-> "ok", exception |-> "none"]
         ELSE IF message.type = "METADATA"
         THEN IF ~r.opening_request
              THEN [request |-> r, out |-> "raise", exception |-> "SwillException"]
              ELSE [request |-> [r EXCEPT !.metadata = message.metadata],
                    out |-> "ok", exception |-> "none"]
         ELSE IF deserialize_message(message) # "none"
         THEN [request |-> [r EXCEPT !.opening_request = FALSE], out |-> "raise",
               exception |-> deserialize_message(message)]
         ELSE [request |-> [r EXCEPT !.opening_request = FALSE,
                                     !.data = message.data],
               out |-> "hook", exception |-> "none"]

\* handler.func(request[, response]) and the start of
\* _process_single_response / _process_streaming_response; an async
\* generator returned for a unary-out handler raises RuntimeError.
InvokeHandler(i, c, newCalls) ==
    IF ~response_streams(c) /\ _handlers[calls[c].rpc].generator
    THEN ExceptIn(i, c, [newCalls EXCEPT ![c].invoked = @ + 1,
                                         ![c].exception = <<Raise("RuntimeError")>>],
                  _handle_exception(Raise("RuntimeError")))
    ELSE Segment(i, "handler", [newCalls EXCEPT ![c].invoked = @ + 1], requests, <<>>)

\* ---- the connection loop: receive side ----------------------------------
\* AsgiApplication._connection_loop, websocket.receive: a task is spawned
\* for the frame.  The task's first segment runs before the loop can look
\* at the next event, so no earlier task is still unstarted.
ReceivePayload(n, rpc, seq, type, payload) ==
    /\ conn = "open"
    /\ Len(tasks) < n
    /\ \A i \in 1..Len(tasks) : tasks[i].pc # "start"
    /\ tasks' = Append(tasks,
                       NewTask([EncapsulatedRequest(rpc, seq, type, Len(tasks) + 1)
                                    EXCEPT !.payload = payload]))
    /\ UNCHANGED <<calls, requests, sendQueue, enqueued, sendTask, written, conn, ops, faults>>
    /\ UNCHANGED <<closes, helperVars>>

\* The frames of a client whose bytes always decode.
ReceiveUpTo(n, rpc, seq, type) == ReceivePayload(n, rpc, seq, type, "valid")

Receive(rpc, seq, type) == ReceiveUpTo(MaxFrames, rpc, seq, type)

\* ---- after the handshake ---------------------------------------------
\* AsgiApplication.__call__: after_accept returns (raised = <<>>) and the
\* connection loop starts, or it raises: CloseConnection closes the
\* websocket, any other exception leaves __call__ with no event.
AfterAccept(raised) ==
    /\ conn = "accepted"
    /\ IF raised = <<>>
       THEN conn' = "open" /\ UNCHANGED closes
       ELSE /\ conn' = "closed"
            /\ closes' = IF raised[1].class = "CloseConnection"
                         THEN Append(closes, websocket_close(raised[1]))
                         ELSE closes
    /\ UNCHANGED <<tasks, calls, requests, sendQueue, enqueued, sendTask, written,
                   ops, faults, helperVars>>

DroppedCancelOnly(message) == message.type = "CANCEL"

\* A frame that opens no call: CANCEL or END_OF_STREAM.
Dropped(message) == message.type \in {"CANCEL", "END_OF_STREAM"}

OpenRequestOnlyForControl(message) ==
    IF message.rpc \in RPCs /\ message.type # "MESSAGE"
    THEN requests[RequestReference(message.rpc, message.seq)]
    ELSE None

\* connection.requests.get(request_reference): the open request of the
\* frame's key, if any.
OpenRequest(message) ==
    IF message.rpc \in RPCs
    THEN requests[RequestReference(message.rpc, message.seq)]
    ELSE None

\* Swill._handle_request from its entry to its first suspension.
Start(i) ==
    /\ tasks[i].pc = "start"
    /\ LET message == tasks[i].frame
           request_reference == RequestReference(message.rpc, message.seq)
           live == OpenRequest(message)
       IN  IF message.payload = "malformed"
           THEN \* deserialize_encapsulated_request raises outside every try:
                \* the exception ends the task, whose result nobody reads
                /\ tasks' = [tasks EXCEPT ![i].pc = "done",
                                          ![i].exception = "SwillDeserializationError"]
                /\ UNCHANGED <<calls, requests, sendQueue, enqueued>>
           ELSE IF live # None
           THEN \* an open request exists: _feed_request, before_request_data
                /\ tasks' = [tasks EXCEPT ![i].pc = "before_request_data",
                                          ![i].role = "feed", ![i].call = live,
                                          ![i].current_request = live,
                                          ![i].current_response = live]
                /\ UNCHANGED <<calls, requests, sendQueue, enqueued>>
           ELSE IF Dropped(message)
           THEN \* warning, return
                /\ tasks' = [tasks EXCEPT ![i].pc = "done"]
                /\ UNCHANGED <<calls, requests, sendQueue, enqueued>>
           ELSE IF message.rpc \notin RPCs
           THEN \* _create_request raises HandlerNotFound: handle_not_found
                /\ tasks' = [tasks EXCEPT ![i].pc = "done"]
                /\ sendQueue' = Append(sendQueue, handle_not_found(message))
                /\ enqueued' = Append(enqueued, handle_not_found(message))
                /\ UNCHANGED <<calls, requests>>
           ELSE \* new request: installed, then before_request is awaited
                /\ calls' = Append(calls, NewCall(message))
                /\ requests' = [requests EXCEPT ![request_reference] = Len(calls) + 1]
                /\ tasks' = [tasks EXCEPT ![i].pc = "before_request",
                                          ![i].role = "call", ![i].call = Len(calls) + 1,
                                          ![i].current_request = Len(calls) + 1]
                /\ UNCHANGED <<sendQueue, enqueued>>
    /\ UNCHANGED <<sendTask, written, conn, ops, faults, closes, helperVars>>

Running(i, pc) ==
    /\ i \in 1..Len(tasks)
    /\ tasks[i].pc = pc
    /\ ~tasks[i].cancel

\* A lifecycle hook returns (ok) or raises.
Hook(ok) ==
    /\ ok \/ faults < MaxFaults
    /\ faults' = IF ok THEN faults ELSE faults + 1
    /\ UNCHANGED ops

\* ---- opening a call -----------------------------------------------------
\* before_request returned (ok) or raised; then the opening frame is
\* processed and, unless before_request_message is awaited, the handler is
\* invoked.
BeforeRequest(i, ok) ==
    /\ Hook(ok)
    /\ Running(i, "before_request")
    /\ LET c == tasks[i].call
           p == process_message(calls[c], tasks[i].frame)
           newCalls == [calls EXCEPT ![c] = p.request]
       IN  IF ~ok
           THEN Except(i, c, INTERNAL_ERROR)
           ELSE IF p.out = "raise"
           THEN ExceptIn(i, c, newCalls,
                         _handle_exception(Raise(p.exception)))
           ELSE IF p.out = "hook"
           THEN Segment(i, "before_request_message", newCalls, requests, <<>>)
           ELSE InvokeHandler(i, c, newCalls)

FeedErrorEndsCall(i, c, newCalls, exception) ==
    Segment(i, "done", newCalls, [requests EXCEPT ![Key(c)] = None],
            <<serialize_error_response(c, _handle_exception(Raise(exception)),
                                       tasks[i].frame.seq,
                                       handled_message(Raise(exception)))>>)

\* An exception leaves _feed_request for call c: _handle_exception enqueues
\* an ERROR frame with the seq of the fed frame and the task returns.
FeedError(i, c, newCalls, exception) ==
    Segment(i, "done", newCalls, requests,
            <<serialize_error_response(c, _handle_exception(Raise(exception)),
                                       tasks[i].frame.seq,
                                       handled_message(Raise(exception)))>>)

\* before_request_message returned or raised; StreamingRequest then adds
\* the message to its queue.
BeforeRequestMessage(i, ok) ==
    /\ Hook(ok)
    /\ Running(i, "before_request_message")
    /\ LET c == tasks[i].call
           newCalls == [calls EXCEPT ![c].queue = Append(@, tasks[i].frame.data)]
       IN  IF tasks[i].role = "call"
           THEN IF ok THEN InvokeHandler(i, c, newCalls)
                ELSE Except(i, c, INTERNAL_ERROR)
           ELSE IF ok THEN Segment(i, "done", newCalls, requests, <<>>)
                ELSE FeedError(i, c, calls, "Exception")

\* ---- feeding an open call -----------------------------------------------
\* Swill._feed_request after before_request_data; an exception goes to
\* _handle_exception, which enqueues an ERROR frame, and the task returns.
BeforeRequestData(i, ok) ==
    /\ Hook(ok)
    /\ Running(i, "before_request_data")
    /\ LET c == tasks[i].call
           p == process_message(calls[c], tasks[i].frame)
           newCalls == [calls EXCEPT ![c] = p.request]
       IN  IF ~ok
           THEN FeedError(i, c, calls, "Exception")
           ELSE IF p.out = "raise"
           THEN FeedError(i, c, newCalls, p.exception)
           ELSE IF p.out = "hook"
           THEN Segment(i, "before_request_message", newCalls, requests, <<>>)
           ELSE Segment(i, "done", newCalls, requests, <<>>)

\* ---- the Response object ------------------------------------------------
\* Response.consume_leading_metadata, called while frame kind is being
\* built: nothing is handed out once the metadata was sent; otherwise
\* before_leading_metadata is awaited first.
Consume(i, c, kind, newCalls, whenSent) ==
    IF newCalls[c].leading_metadata_sent
    THEN whenSent
    ELSE Segment(i, "before_leading_metadata",
                 [newCalls EXCEPT ![c].cont = kind], requests, <<>>)

MarkSentForgotten(r) == r

\* self._leading_metadata_sent = True
MarkSent(r) == [r EXCEPT !.leading_metadata_sent = TRUE]

\* before_leading_metadata returned: the metadata is marked sent and handed
\* to the frame that asked for it, which is then enqueued.
BeforeLeadingMetadata(i, ok) ==
    /\ Hook(ok)
    /\ Running(i, "before_leading_metadata")
    /\ LET c == tasks[i].call
           r == calls[c]
           sent == [calls EXCEPT ![c] = MarkSent(r)]
       IN  IF ~ok
           THEN Except(i, c, INTERNAL_ERROR)
           ELSE IF r.cont = "METADATA"
           THEN \* Response.send_leading_metadata, called by the handler
                Segment(i, "handler", sent, requests,
                        <<MetadataFrame(c, r, r.leading_metadata)>>)
           ELSE IF r.cont = "MESSAGE"
           THEN \* _process_single_response
                Finally(i, c, sent,
                        <<SingleResponse(c, r, r.leading_metadata)>>)
           ELSE IF r.cont = "ITEM"
           THEN \* _process_streaming_response, one yielded item
                Segment(i, "handler", sent, requests,
                        <<StreamMessage(c, r, r.leading_metadata)>>)
           ELSE \* _process_streaming_response, END_OF_STREAM
                Finally(i, c, sent,
                        <<EndOfStream(c, r, r.leading_metadata)>>)

\* ---- the handler (user code) --------------------------------------------
InHandler(i) ==
    /\ Running(i, "handler")
    /\ tasks[i].role = "call"

\* A metadata operation of a handler; the k-th one on the connection uses
\* the value k.
Op ==
    /\ ops < MaxOps
    /\ ops' = ops + 1
    /\ UNCHANGED faults

\* response.set_leading_metadata(ops + 1, send_immediately)
HandlerSetLeading(i, send_immediately) ==
    /\ InHandler(i)
    /\ Op
    /\ LET c == tasks[i].call
           set == [calls EXCEPT ![c].leading_metadata = ops + 1]
       IN  /\ IF calls[c].leading_metadata_sent
              THEN Except(i, c, INTERNAL_ERROR)     \* SwillResponseError
              ELSE IF send_immediately
              THEN Consume(i, c, "METADATA", set, FALSE)
              ELSE Segment(i, "handler", set, requests, <<>>)

\* response.send_leading_metadata()
HandlerSendLeading(i) ==
    /\ InHandler(i)
    /\ Op
    /\ LET c == tasks[i].call
       IN  IF calls[c].leading_metadata_sent
           THEN Except(i, c, INTERNAL_ERROR)     \* SwillResponseError
           ELSE Consume(i, c, "METADATA", calls, FALSE)

\* response.set_trailing_metadata(ops + 1)
HandlerSetTrailing(i) ==
    /\ InHandler(i)
    /\ Op
    /\ Segment(i, "handler",
               [calls EXCEPT ![tasks[i].call].trailing_metadata = ops + 1],
               requests, <<>>)

\* The handler asks request.data for its next item:
\* _StreamingQueue.__anext__ up to asyncio.wait.
HandlerNext(i) ==
    /\ InHandler(i)
    /\ UNCHANGED <<ops, faults>>
    /\ LET c == tasks[i].call
       IN  /\ request_streams(c)
           /\ calls[c].iter = "open"
           /\ IF calls[c].close_event
              THEN Segment(i, "handler", [calls EXCEPT ![c].iter = "stopped"], requests, <<>>)
              ELSE Segment(i, "queue_wait", calls, requests, <<>>)

CancelledSendsEnd(i, c, newCalls) ==
    Finally(i, c, [newCalls EXCEPT ![c].closed = @ \/ response_streams(c)],
            IF response_streams(c) THEN <<EndOfStream(c, newCalls[c], None)>> ELSE <<>>)

\* The end of the dispatch when the handler was stopped by
\* SwillRequestCancelled: suppressed, the cancelled request sends nothing.
Cancelled(i, c, newCalls) ==
    Finally(i, c, [newCalls EXCEPT ![c].closed = @ \/ response_streams(c)], <<>>)

\* _StreamingQueue.__anext__ after asyncio.wait returned.
QueueWake(i) ==
    /\ Running(i, "queue_wait")
    /\ UNCHANGED <<ops, faults>>
    /\ LET c == tasks[i].call
           r == calls[c]
       IN  /\ r.cancel_event \/ r.queue # <<>> \/ r.close_event
           /\ IF r.cancel_event
              THEN Cancelled(i, c, calls)
              ELSE IF r.queue # <<>>
              THEN Segment(i, "handler",
                           [calls EXCEPT ![c].queue = Tail(@),
                                         ![c].observed = Append(@, Head(r.queue))],
                           requests, <<>>)
              ELSE Segment(i, "handler", [calls EXCEPT ![c].iter = "stopped"], requests, <<>>)

\* A stream-out handler yields its next item; the dispatcher's loop body
\* runs up to before_response_message.
HandlerYield(i) ==
    /\ InHandler(i)
    /\ UNCHANGED <<ops, faults>>
    /\ LET c == tasks[i].call
           yielded == [calls EXCEPT ![c].yields = @ + 1, ![c].result = calls[c].yields + 1,
                                    ![c].cont = "ITEM"]
       IN  /\ response_streams(c)
           /\ calls[c].yields < MaxYield
           /\ IF calls[c].cancelled
              THEN Cancelled(i, c, [yielded EXCEPT ![c].dropped = TRUE]) \* generator.athrow
              ELSE Segment(i, "before_response_message", yielded, requests, <<>>)

\* The handler returns (unary-out: result v) or its generator is exhausted.
HandlerReturn(i, v) ==
    /\ InHandler(i)
    /\ UNCHANGED <<ops, faults>>
    /\ LET c == tasks[i].call
           returned == [calls EXCEPT ![c].result = IF response_streams(c) THEN None ELSE v,
                                     ![c].cont = IF response_streams(c) THEN "END_OF_STREAM" ELSE "MESSAGE",
                                     ![c].closed = response_streams(c),
                                     ![c].returned = TRUE]
       IN  IF calls[c].cancelled
           THEN Finally(i, c, [returned EXCEPT ![c].dropped = TRUE], <<>>)
           ELSE Segment(i, "before_trailing_metadata", returned, requests, <<>>)

\* The handler raises: except Exception of _handle_request hands the
\* exception to _handle_exception, then the finally block runs.
HandlerRaise(i, exception) ==
    /\ InHandler(i)
    /\ Hook(FALSE)
    /\ LET c == tasks[i].call
       IN  Finally(i, c,
                   [calls EXCEPT ![c].raised = TRUE,
                                 ![c].closed = @ \/ response_streams(c),
                                 ![c].exception = <<exception>>],
                   <<serialize_error_response(c, _handle_exception(exception),
                                              tasks[i].frame.seq,
                                              handled_message(exception))>>)

\* ---- the dispatcher after the handler ------------------------------------
BeforeTrailingMetadata(i, ok) ==
    /\ Hook(ok)
    /\ Running(i, "before_trailing_metadata")
    /\ LET c == tasks[i].call
           r == calls[c]
       IN  IF ~ok
           THEN Except(i, c, INTERNAL_ERROR)
           ELSE IF r.cont = "MESSAGE"
           THEN Segment(i, "before_response_message", calls, requests, <<>>)
           ELSE Consume(i, c, "END_OF_STREAM", calls,
                        Finally(i, c, calls,
                                <<EndOfStream(c, r, None)>>))

BeforeResponseMessage(i, ok) ==
    /\ Hook(ok)
    /\ Running(i, "before_response_message")
    /\ LET c == tasks[i].call
           r == calls[c]
       IN  IF ~ok
           THEN Except(i, c, INTERNAL_ERROR)
           ELSE IF r.cont = "MESSAGE"
           THEN Consume(i, c, "MESSAGE", calls,
                        Finally(i, c, calls,
                                <<SingleResponse(c, r, None)>>))
           ELSE Consume(i, c, "ITEM", calls,
                        Segment(i, "handler", calls, requests,
                                <<StreamMessage(c, r, None)>>))

\* after_request returned or raised: the task is over.  The reset calls
\* follow the hook in the finally block and run only when it returned.
AfterRequest(i, ok) ==
    /\ Hook(ok)
    /\ Running(i, "after_request")
    /\ SegmentReset(i, "done", calls, requests, <<>>, ok)

\* ---- disconnect ---------------------------------------------------------
DisconnectLeavesTasks ==
    /\ conn = "open"
    /\ \A i \in 1..Len(tasks) : tasks[i].pc # "start"
    /\ conn' = "closed"
    /\ UNCHANGED <<tasks, calls, requests, sendQueue, enqueued, sendTask, written, ops, faults>>
    /\ UNCHANGED <<closes, helperVars>>

\* websocket.disconnect: every task that is not done is cancelled and the
\* loop is left.
Disconnect ==
    /\ conn = "open"
    /\ \A i \in 1..Len(tasks) : tasks[i].pc # "start"
    /\ conn' = "closed"
    /\ tasks' = [i \in 1..Len(tasks) |->
                    [tasks[i] EXCEPT !.cancel = (tasks[i].pc # "done")]]
    /\ UNCHANGED <<calls, requests, sendQueue, enqueued, sendTask, written, ops, faults>>
    /\ UNCHANGED <<closes, helperVars>>

\* CancelledError is thrown into a cancelled task where it is suspended:
\* except Exception does not catch it, the finally blocks run.
TaskCancelled(i) ==
    /\ i \in 1..Len(tasks)
    /\ UNCHANGED <<ops, faults>>
    /\ tasks[i].cancel
    /\ LET c == tasks[i].call
       IN  IF tasks[i].role = "call" /\ tasks[i].pc # "after_request"
           THEN Finally(i, c,
                        [calls EXCEPT ![c].closed = @ \/ (response_streams(c) /\ calls[c].invoked > 0)],
                        <<>>)
           ELSE Segment(i, "done", calls, requests, <<>>)

\* ---- the connection loop: send side -------------------------------------
get_send_data_newest(q) == [item |-> q[Len(q)], rest |-> SubSeq(q, 1, Len(q) - 1)]

\* Queue.get on the send queue: the item taken and what is left.
get_send_data(q) == [item |-> Head(q), rest |-> Tail(q)]

SendTaskGetWhenIdle ==
    /\ conn = "open"
    /\ \A i \in 1..Len(tasks) : tasks[i].pc \in {"after_request", "done"}
    /\ sendTask = <<>>
    /\ sendQueue # <<>>
    /\ sendTask' = <<get_send_data(sendQueue).item>>
    /\ sendQueue' = get_send_data(sendQueue).rest
    /\ UNCHANGED <<tasks, calls, requests, enqueued, written, conn, ops, faults>>
    /\ UNCHANGED <<closes, helperVars>>

\* Connection.get_send_data: the send task takes the head of the queue.
SendTaskGet ==
    /\ conn = "open"
    /\ sendTask = <<>>
    /\ sendQueue # <<>>
    /\ sendTask' = <<get_send_data(sendQueue).item>>
    /\ sendQueue' = get_send_data(sendQueue).rest
    /\ UNCHANGED <<tasks, calls, requests, enqueued, written, conn, ops, faults>>
    /\ UNCHANGED <<closes, helperVars>>

LoopSendDropsResult ==
    /\ conn = "open"
    /\ sendTask # <<>>
    /\ sendTask' = <<>>
    /\ UNCHANGED <<tasks, calls, requests, sendQueue, enqueued, written, conn, ops, faults>>
    /\ UNCHANGED <<closes, helperVars>>

\* The loop finds the send task done, writes its result as websocket.send
\* and re-arms the send task.
LoopSend ==
    /\ conn = "open"
    /\ sendTask # <<>>
    /\ written' = Append(written, sendTask[1])
    /\ sendTask' = <<>>
    /\ UNCHANGED <<tasks, calls, requests, sendQueue, enqueued, conn, ops, faults>>
    /\ UNCHANGED <<closes, helperVars>>

\* ---- the StreamingQueue helper ------------------------------------------
\* StreamingQueue.add: the k-th item added is k.
add ==
    /\ sq.added < MaxAdd
    /\ sq' = [sq EXCEPT !.added = @ + 1, !._queue = Append(@, sq.added + 1)]
    /\ UNCHANGED <<appVars, hs, rs, vs>>

\* StreamingQueue.close
close ==
    /\ ~sq._close_event
    /\ sq' = [sq EXCEPT !._close_event = TRUE]
    /\ UNCHANGED <<appVars, hs, rs, vs>>

\* StreamingQueue.cancel
cancel ==
    /\ ~sq._cancel_event
    /\ sq' = [sq EXCEPT !._cancel_event = TRUE]
    /\ UNCHANGED <<appVars, hs, rs, vs>>

\* How an observation ended: an item, or an exception.
Returned(item) == [raised |-> "none", item |-> item]

Raised(exception) == [raised |-> exception, item |-> None]

\* StreamingQueue.__anext__ from its entry to asyncio.wait.
anext_entry ==
    /\ sq.pc = "idle"
    /\ Len(sq.results) < MaxObs
    /\ sq' = IF sq._cancel_event
             THEN [sq EXCEPT !.results = Append(@, Raised("SwillRequestCancelled"))]
             ELSE [sq EXCEPT !.pc = "wait", !.waits = @ + 1,
                             !.closed_at_entry = sq._close_event]
    /\ UNCHANGED <<appVars, hs, rs, vs>>

anext_done_item_first(q) ==
    IF q._queue # <<>> THEN Returned(Head(q._queue))
    ELSE IF q._cancel_event THEN Raised("SwillRequestCancelled")
    ELSE Raised("StopAsyncIteration")

\* StreamingQueue.__anext__ after asyncio.wait: the tasks in done are those
\* whose queue or event was ready; cancel is looked at first, then the item,
\* then close.
anext_done(q) ==
    IF q._cancel_event THEN Raised("SwillRequestCancelled")
    ELSE IF q._queue # <<>> THEN Returned(Head(q._queue))
    ELSE Raised("StopAsyncIteration")

\* asyncio.wait returns as soon as one of the three tasks is done; the
\* _get_item task has taken the head of the queue if there was one.
anext_wake ==
    /\ sq.pc = "wait"
    /\ sq._queue # <<>> \/ sq._close_event \/ sq._cancel_event
    /\ sq' = [sq EXCEPT !.pc = "idle",
                        !._queue = IF @ = <<>> THEN @ ELSE Tail(@),
                        !.results = Append(@, anext_done(sq))]
    /\ UNCHANGED <<appVars, hs, rs, vs>>

\* ---- the handshake -------------------------------------------------------
http_response_start(status) == [type |-> "http.response.start", status |-> status]

http_response_body == [type |-> "http.response.body", status |-> None]

websocket_accept == [type |-> "websocket.accept", status |-> None]

\* The attributes ConnectionData.__init__ gives an instance.
ConnectionData == {"request", "response"}

\* AsgiApplication.__call__ up to the handshake: anything but a websocket
\* on a known path is answered with 404.
AsgiCall(scope) ==
    /\ hs.pc = "call"
    /\ hs' = IF scope.type # "websocket" \/ ~scope.path_known
             THEN [hs EXCEPT !.pc = "done", !.scope = scope,
                             !.sent = <<http_response_start(404),
                                        http_response_body>>]
             ELSE [hs EXCEPT !.pc = "receive", !.scope = scope]
    /\ UNCHANGED <<appVars, sq, rs, vs>>

\* The except block of _websocket_handshake for CloseConnection e: it reads
\* connection_data.http_response, which raises AttributeError on an object
\* that has no such attribute; with the attribute it chooses the status and
\* writes the two http.response events.
refuse_handshake(h, e) ==
    IF "http_response" \notin h.attributes
    THEN [h EXCEPT !.pc = "done", !.e = e.code, !.raised = "AttributeError"]
    ELSE IF e.code >= 1000 /\ h.status_code < 200
    THEN [h EXCEPT !.pc = "done", !.e = e.code, !.raised = "SwillException"]
    ELSE LET status == IF e.code < 1000 THEN e.code
                       ELSE IF ~(h.status_code > 299) THEN 403
                       ELSE h.status_code
         IN  [h EXCEPT !.pc = "done", !.e = e.code, !.status_code = status,
                       !.sent = @ \o <<http_response_start(status),
                                       http_response_body>>]

\* _websocket_handshake from receive() to the before_connection hook:
\* any event but websocket.connect ends the call, and choose_subprotocol
\* raises CloseConnection(code=406) when swill/1 was not offered.
WebsocketConnect(event) ==
    /\ hs.pc = "receive"
    /\ hs' = IF event # "websocket.connect"
             THEN [hs EXCEPT !.pc = "done", !.event = event]
             ELSE LET h == [hs EXCEPT !.event = event,
                                      !.attributes = ConnectionData]
                  IN  IF "swill/1" \notin hs.scope.subprotocols
                      THEN refuse_handshake(h, [class |-> "CloseConnection",
                                                code |-> 406])
                      ELSE [h EXCEPT !.pc = "before_connection",
                                     !.lifecycle = Append(@, "before_connection")]
    /\ UNCHANGED <<appVars, sq, rs, vs>>

\* The before_connection hook returns or raises; it is user code handed the
\* ConnectionData, and http_response is None or the status_code of the
\* http_response attribute the hook gave the object.  After it the
\* handshake accepts, refuses, or lets the exception go.
BeforeConnection(http_response, raised) ==
    /\ hs.pc = "before_connection"
    /\ LET h == IF http_response # None
                THEN [hs EXCEPT !.attributes = @ \cup {"http_response"},
                                !.status_code = http_response]
                ELSE hs
       IN  hs' = IF raised = <<>>
                 THEN [h EXCEPT !.pc = "after_accept",
                                !.sent = Append(@, websocket_accept)]
                 ELSE IF raised.class = "CloseConnection"
                 THEN refuse_handshake(h, raised)
                 ELSE [h EXCEPT !.pc = "done", !.raised = raised.class]
    /\ UNCHANGED <<appVars, sq, rs, vs>>

\* AsgiApplication.__call__: the after_accept lifecycle handler.
LifecycleAfterAccept(raised) ==
    /\ hs.pc = "after_accept"
    /\ hs' = IF raised = <<>>
             THEN [hs EXCEPT !.pc = "loop", !.lifecycle = Append(@, "after_accept")]
             ELSE IF raised.class = "CloseConnection"
             THEN [hs EXCEPT !.pc = "after_connection",
                             !.lifecycle = Append(@, "after_accept"),
                             !.sent = Append(@, [type |-> "websocket.close",
                                                 status |-> websocket_close(raised).code])]
             ELSE [hs EXCEPT !.pc = "after_connection",
                             !.lifecycle = Append(@, "after_accept"),
                             !.pending = raised.class]
    /\ UNCHANGED <<appVars, sq, rs, vs>>

\* The exits of the try block of __call__ after the handshake: the
\* websocket.close event for a CloseConnection, an exception of any other
\* class kept for after the finally block.
leave_try(h, raised) ==
    IF raised = <<>> THEN h
    ELSE IF raised.class = "CloseConnection"
    THEN [h EXCEPT !.sent = Append(@, [type |-> "websocket.close",
                                       status |-> websocket_close(raised).code])]
    ELSE [h EXCEPT !.pending = raised.class]

ConnectionLoopSkipsFinally(raised) ==
    /\ hs.pc = "loop"
    /\ hs' = leave_try([hs EXCEPT !.pc = IF raised = <<>> THEN "after_connection"
                                         ELSE "done",
                                  !.lifecycle = Append(@, "_connection_loop")],
                       raised)
    /\ UNCHANGED <<appVars, sq, rs, vs>>

\* AsgiApplication.__call__: _connection_loop, from its entry to its exit:
\* the break on websocket.disconnect (raised = <<>>), or an exception that
\* receive, send or the send task raised into the loop.
ConnectionLoop(raised) ==
    /\ hs.pc = "loop"
    /\ hs' = leave_try([hs EXCEPT !.pc = "after_connection",
                                  !.lifecycle = Append(@, "_connection_loop")],
                       raised)
    /\ UNCHANGED <<appVars, sq, rs, vs>>

\* AsgiApplication.__call__: the finally block.
LifecycleAfterConnection ==
    /\ hs.pc = "after_connection"
    /\ hs' = [hs EXCEPT !.pc = "done",
                        !.lifecycle = Append(@, "after_connection"),
                        !.raised = hs.pending]
    /\ UNCHANGED <<appVars, sq, rs, vs>>

\* ---- validators -----------------------------------------------------------
\* _check_gt, _check_ge, _check_lt, _check_le: what the check raises for
\* value and a constraint with bound c.
_check_gt(value, c) == IF value < c THEN "ValueError" ELSE "none"

_check_ge(value, c) == IF value <= c THEN "ValueError" ELSE "none"

_check_lt(value, c) == IF value > c THEN "ValueError" ELSE "none"

_check_le(value, c) == IF value > c THEN "ValueError" ELSE "none"

\* _VALIDATORS: the check registered for each comparison constraint.
_VALIDATORS(constraint, value, c) ==
    IF constraint = "Gt" THEN _check_gt(value, c)
    ELSE IF constraint = "Lt" THEN _check_lt(value, c)
    ELSE IF constraint = "Ge" THEN _check_ge(value, c)
    ELSE _check_le(value, c)

Comparisons == {"Gt", "Ge", "Lt", "Le"}

\* The validator registered for a constraint is called with value.
CheckConstraint(constraint, value, c) ==
    /\ vs.pc = "idle"
    /\ vs' = [pc |-> "checked", constraint |-> constraint, value |-> value, bound |-> c,
              raised |-> _VALIDATORS(constraint, value, c)]
    /\ UNCHANGED <<appVars, sq, hs, rs>>

\* The values of the fields of a struct: "default" is the class default of
\* the field, and a callback raises ValueError for "bad".
Items == {"ok", "bad"}

\* The instances of a ValidatedStruct class with scalar fields a and c and
\* a list field b.
Structs ==
    [a : Items \cup {"default"},
     c : Items \cup {"default"},
     b : UNION {[1..n -> Items] : n \in 0..MaxItems}]

\* getattr(self.__class__, field): the default the class declares for a
\* field.
class_default(field) == IF field = "b" THEN <<>> ELSE "default"

\* ValidatorDefinition: a validator of the fields a and c, one of each item
\* of b (each=True) and one of c; all are optional (the default).
ValidatorDefinitions ==
    {[fields |-> <<"a", "c">>, each |-> FALSE, optional |-> TRUE],
     [fields |-> <<"b">>, each |-> TRUE, optional |-> TRUE],
     [fields |-> <<"c">>, each |-> FALSE, optional |-> TRUE]}

\* The loop of __validate__ over items from position n on, for validator k
\* and field: every callback run is noted in ran, a failing one appends a
\* ValidationExceptionItem, and unless all_exceptions is set the loop over
\* the items is left (break).
RECURSIVE validate_items(_, _, _, _, _, _, _)
validate_items(items, n, k, field, each, all_exceptions, acc) ==
    IF n > Len(items) THEN acc
    ELSE LET failed == items[n] = "bad"
             run == [acc EXCEPT !.ran = Append(@, [validator |-> k, field |-> field,
                                                   index |-> n, failed |-> failed])]
             noted == IF failed
                      THEN [run EXCEPT !.exceptions =
                                Append(@, [field |-> field,
                                           index |-> IF each THEN n ELSE None])]
                      ELSE run
         IN  IF failed /\ ~all_exceptions THEN noted
             ELSE validate_items(items, n + 1, k, field, each, all_exceptions, noted)

\* The loop of __validate__ over the fields of validator k from position f
\* on; a field that holds its class default is skipped by an optional
\* validator (continue).
RECURSIVE validate_fields(_, _, _, _, _, _)
validate_fields(self, validator_def, f, k, all_exceptions, acc) ==
    IF f > Len(validator_def.fields) THEN acc
    ELSE LET field == validator_def.fields[f]
             field_item == self[field]
             items == IF validator_def.each THEN field_item ELSE <<field_item>>
             skip == validator_def.optional /\ field_item = class_default(field)
             after == IF skip THEN acc
                      ELSE validate_items(items, 1, k, field, validator_def.each,
                                          all_exceptions, acc)
         IN  validate_fields(self, validator_def, f + 1, k, all_exceptions, after)

\* The loop of __validate__ over the validators from k on.
RECURSIVE validate_from(_, _, _, _, _)
validate_from(self, validators, k, all_exceptions, acc) ==
    IF k > Len(validators) THEN acc
    ELSE validate_from(self, validators, k + 1, all_exceptions,
                       validate_fields(self, validators[k], 1, k, all_exceptions, acc))

\* ValidatedStruct.__validate__: the callbacks run, the exceptions
\* collected, and whether SwillValidationError(exceptions) is raised.
__validate__(self, validators, all_exceptions) ==
    LET r == validate_from(self, validators, 1, all_exceptions,
                           [ran |-> <<>>, exceptions |-> <<>>])
    IN  [ran |-> r.ran, exceptions |-> r.exceptions,
         raised |-> IF r.exceptions # <<>> THEN "SwillValidationError" ELSE "none"]

\* self.__validate__() on an instance of a class with the given validators
\* and Meta.return_all_errors.
Validate(self, validators, return_all_errors) ==
    /\ vs.pc = "idle"
    /\ vs' = [pc |-> "validated", self |-> self, validators |-> validators,
              return_all_errors |-> return_all_errors,
              result |-> __validate__(self, validators, return_all_errors)]
    /\ UNCHANGED <<appVars, sq, hs, rs>>

\* ---- a Response taken by itself ---------------------------------------
\* A finished method call: the method, what it raised, what it returned,
\* and the stored leading metadata and the sent flag when it was entered.
Finished(r, method, raised, returned, was, was_sent) ==
    [r EXCEPT !.pc = "idle", !.cont = "none", !.was = None,
              !.log = Append(@, [method |-> method, raised |-> raised,
                                 returned |-> returned, was |-> was,
                                 was_sent |-> was_sent,
                                 is |-> r._leading_metadata])]

\* The k-th method call on the Response passes the value k.
Arg == Len(rs.log) + 1

ResponseIdle ==
    /\ rs.pc = "idle"
    /\ Len(rs.log) < MaxResponseOps
    /\ UNCHANGED <<appVars, sq, hs, vs>>

\* Response.consume_leading_metadata up to the hook: entered from method
\* cont, with r the Response as the caller left it.
consume_leading_metadata(r, cont, was) ==
    IF r._leading_metadata_sent
    THEN Finished(r, cont, "none", None, was, TRUE)
    ELSE [r EXCEPT !.pc = "before_leading_metadata", !.cont = cont, !.was = was]

\* Response.send_leading_metadata up to the hook.
send_leading_metadata(r, cont, was) ==
    IF r._leading_metadata_sent
    THEN Finished(r, cont, "SwillResponseError", None, was, TRUE)
    ELSE consume_leading_metadata(r, cont, was)

\* Response.set_leading_metadata(Arg, send_immediately)
set_leading_metadata(send_immediately) ==
    /\ ResponseIdle
    /\ rs' = IF rs._leading_metadata_sent
             THEN Finished(rs, "set_leading_metadata", "SwillResponseError", None,
                           rs._leading_metadata, TRUE)
             ELSE LET r == [rs EXCEPT !._leading_metadata = Arg]
                  IN  IF send_immediately
                      THEN send_leading_metadata(r, "set_leading_metadata",
                                                 rs._leading_metadata)
                      ELSE Finished(r, "set_leading_metadata", "none", None,
                                    rs._leading_metadata, FALSE)

\* Response.send_leading_metadata()
ResponseSend ==
    /\ ResponseIdle
    /\ rs' = send_leading_metadata(rs, "send_leading_metadata", rs._leading_metadata)

\* Response.consume_leading_metadata()
ResponseConsume ==
    /\ ResponseIdle
    /\ rs' = consume_leading_metadata(rs, "consume_leading_metadata",
                                      rs._leading_metadata)

\* Response.set_trailing_metadata(Arg)
set_trailing_metadata ==
    /\ ResponseIdle
    /\ rs' = Finished([rs EXCEPT !._trailing_metadata = Arg],
                      "set_trailing_metadata", "none", None,
                      rs._leading_metadata, rs._leading_metadata_sent)

\* The before_leading_metadata hook returns or raises: the rest of
\* consume_leading_metadata, and of send_leading_metadata around it.
ResponseHook(ok) ==
    /\ rs.pc = "before_leading_metadata"
    /\ rs' = IF ~ok
             THEN Finished(rs, rs.cont, "Exception", None, rs.was, FALSE)
             ELSE LET r == [rs EXCEPT !._leading_metadata_sent = TRUE]
                  IN  IF rs.cont = "consume_leading_metadata"
                      THEN Finished(r, rs.cont, "none", rs._leading_metadata,
                                    rs.was, FALSE)
                      ELSE Finished([r EXCEPT !.sends =
                                        Append(@, MetadataFrame(None, rs,
                                                                rs._leading_metadata))],
                                    rs.cont, "none", None, rs.was, FALSE)
    /\ UNCHANGED <<appVars, sq, hs, vs>>

\* ---- specifications ----------------------------------------------------
\* The client keeps to the key of its first frame.
OneKey(rpc, seq) ==
    IF tasks = <<>> THEN TRUE
    ELSE rpc = tasks[1].frame.rpc /\ seq = tasks[1].frame.seq

\* The multiplexer: the frames of a client that uses one key, every task
\* they spawn, and the disconnect.  The send side of the loop only moves
\* frames from sendQueue to written, which no task reads, and is left to
\* SpecLoop.
Next ==
    \/ \E raised \in {<<>>} \cup {<<e>> : e \in Exceptions} : AfterAccept(raised)
    \/ \E rpc \in WireRPCs, seq \in Seqs, type \in RequestType :
            OneKey(rpc, seq) /\ Receive(rpc, seq, type)
    \/ \E i \in 1..Len(tasks) : Start(i)
    \/ \E i \in 1..Len(tasks), ok \in BOOLEAN : BeforeRequest(i, ok)
    \/ \E i \in 1..Len(tasks), ok \in BOOLEAN : BeforeRequestMessage(i, ok)
    \/ \E i \in 1..Len(tasks), ok \in BOOLEAN : BeforeRequestData(i, ok)
    \/ \E i \in 1..Len(tasks), ok \in BOOLEAN : BeforeLeadingMetadata(i, ok)
    \/ \E i \in 1..Len(tasks), b \in BOOLEAN : HandlerSetLeading(i, b)
    \/ \E i \in 1..Len(tasks) : HandlerSendLeading(i)
    \/ \E i \in 1..Len(tasks) : HandlerSetTrailing(i)
    \/ \E i \in 1..Len(tasks) : HandlerNext(i)
    \/ \E i \in 1..Len(tasks) : QueueWake(i)
    \/ \E i \in 1..Len(tasks) : HandlerYield(i)
    \/ \E i \in 1..Len(tasks), v \in Results : HandlerReturn(i, v)
    \/ \E i \in 1..Len(tasks), exception \in Exceptions : HandlerRaise(i, exception)
    \/ \E i \in 1..Len(tasks), ok \in BOOLEAN : BeforeTrailingMetadata(i, ok)
    \/ \E i \in 1..Len(tasks), ok \in BOOLEAN : BeforeResponseMessage(i, ok)
    \/ \E i \in 1..Len(tasks), ok \in BOOLEAN : AfterRequest(i, ok)
    \/ Disconnect
    \/ \E i \in 1..Len(tasks) : TaskCancelled(i)

Spec == Init /\ [][Next]_vars

\* The connection loop with its send side, for clients that use any keys
\* and for handlers that leave the Response alone and user code that does
\* not raise.
NextLoop ==
    \/ \E raised \in {<<>>} \cup {<<e>> : e \in Exceptions} : AfterAccept(raised)
    \/ \E rpc \in WireRPCs, seq \in Seqs, type \in RequestType : Receive(rpc, seq, type)
    \/ \E i \in 1..Len(tasks) : Start(i)
    \/ \E i \in 1..Len(tasks) : BeforeRequest(i, TRUE)
    \/ \E i \in 1..Len(tasks) : BeforeRequestMessage(i, TRUE)
    \/ \E i \in 1..Len(tasks) : BeforeRequestData(i, TRUE)
    \/ \E i \in 1..Len(tasks) : BeforeLeadingMetadata(i, TRUE)
    \/ \E i \in 1..Len(tasks) : HandlerNext(i)
    \/ \E i \in 1..Len(tasks) : QueueWake(i)
    \/ \E i \in 1..Len(tasks) : HandlerYield(i)
    \/ \E i \in 1..Len(tasks), v \in Results : HandlerReturn(i, v)
    \/ \E i \in 1..Len(tasks) : BeforeTrailingMetadata(i, TRUE)
    \/ \E i \in 1..Len(tasks) : BeforeResponseMessage(i, TRUE)
    \/ \E i \in 1..Len(tasks) : AfterRequest(i, TRUE)
    \/ Disconnect
    \/ \E i \in 1..Len(tasks) : TaskCancelled(i)
    \/ SendTaskGet
    \/ LoopSend

SpecLoop == Init /\ [][NextLoop]_vars

\* The RPCs the client of SpecFeed calls: one unary-in, one stream-in.
FeedRPCs == {"uu", "su"}

\* Calls that are fed further frames while other calls are open: the client
\* uses any keys of FeedRPCs and the hooks of the feed path may raise.
NextFeed ==
    \/ \E raised \in {<<>>} \cup {<<e>> : e \in Exceptions} : AfterAccept(raised)
    \/ \E rpc \in FeedRPCs, seq \in Seqs, type \in RequestType :
            ReceiveUpTo(MaxFeedFrames, rpc, seq, type)
    \/ \E i \in 1..Len(tasks) : Start(i)
    \/ \E i \in 1..Len(tasks) : BeforeRequest(i, TRUE)
    \/ \E i \in 1..Len(tasks), ok \in BOOLEAN : BeforeRequestMessage(i, ok)
    \/ \E i \in 1..Len(tasks), ok \in BOOLEAN : BeforeRequestData(i, ok)
    \/ \E i \in 1..Len(tasks) : BeforeLeadingMetadata(i, TRUE)
    \/ \E i \in 1..Len(tasks), b \in BOOLEAN : HandlerSetLeading(i, b)
    \/ \E i \in 1..Len(tasks) : HandlerSetTrailing(i)
    \/ \E i \in 1..Len(tasks) : HandlerNext(i)
    \/ \E i \in 1..Len(tasks) : QueueWake(i)
    \/ \E i \in 1..Len(tasks), v \in Results : HandlerReturn(i, v)
    \/ \E i \in 1..Len(tasks) : BeforeTrailingMetadata(i, TRUE)
    \/ \E i \in 1..Len(tasks) : BeforeResponseMessage(i, TRUE)
    \/ \E i \in 1..Len(tasks) : AfterRequest(i, TRUE)

SpecFeed == Init /\ [][NextFeed]_vars

\* What tells two frames apart for the dispatcher: only the data of a
\* MESSAGE frame is decoded, and bytes that are no envelope have no fields.
Distinct(rpc, type, payload) ==
    /\ payload = "invalid" => type = "MESSAGE"
    /\ payload = "malformed" => rpc = "uu" /\ type = "MESSAGE"

\* Clients that send bytes of every kind, to any keys of FeedRPCs, while
\* the user code does not raise.
NextDecode ==
    \/ \E raised \in {<<>>} \cup {<<e>> : e \in Exceptions} : AfterAccept(raised)
    \/ \E rpc \in FeedRPCs, seq \in Seqs, type \in RequestType, payload \in Payloads :
            /\ Distinct(rpc, type, payload)
            /\ ReceivePayload(MaxFeedFrames, rpc, seq, type, payload)
    \/ \E i \in 1..Len(tasks) : Start(i)
    \/ \E i \in 1..Len(tasks) : BeforeRequest(i, TRUE)
    \/ \E i \in 1..Len(tasks) : BeforeRequestMessage(i, TRUE)
    \/ \E i \in 1..Len(tasks) : BeforeRequestData(i, TRUE)
    \/ \E i \in 1..Len(tasks) : BeforeLeadingMetadata(i, TRUE)
    \/ \E i \in 1..Len(tasks) : HandlerNext(i)
    \/ \E i \in 1..Len(tasks) : QueueWake(i)
    \/ \E i \in 1..Len(tasks), v \in Results : HandlerReturn(i, v)
    \/ \E i \in 1..Len(tasks) : BeforeTrailingMetadata(i, TRUE)
    \/ \E i \in 1..Len(tasks) : BeforeResponseMessage(i, TRUE)
    \/ \E i \in 1..Len(tasks) : AfterRequest(i, TRUE)

SpecDecode == Init /\ [][NextDecode]_vars

\* The RPCs the client of SpecHandler calls: a unary one, a stream-out one
\* and the one whose unary-out handler returns an async generator.
HandlerRPCs == {"uu", "us", "ug"}

\* What the handlers of SpecHandler raise: the exceptions of user code and
\* swill's own HandlerNotFound.
HandlerExceptions ==
    Exceptions \cup {[class |-> "HandlerNotFound", code |-> None, message |-> "no such item"]}

\* The dispatch of one call at a time, of handlers of every kind: hooks and
\* handlers may raise, the client cancels and disconnects.
NextHandler ==
    \/ AfterAccept(<<>>)
    \/ \E rpc \in HandlerRPCs, seq \in Seqs, type \in RequestType :
            OneKey(rpc, seq) /\ Receive(rpc, seq, type)
    \/ \E i \in 1..Len(tasks) : Start(i)
    \/ \E i \in 1..Len(tasks), ok \in BOOLEAN : BeforeRequest(i, ok)
    \/ \E i \in 1..Len(tasks), ok \in BOOLEAN : BeforeRequestData(i, ok)
    \/ \E i \in 1..Len(tasks), ok \in BOOLEAN : BeforeLeadingMetadata(i, ok)
    \/ \E i \in 1..Len(tasks), b \in BOOLEAN : HandlerSetLeading(i, b)
    \/ \E i \in 1..Len(tasks) : HandlerYield(i)
    \/ \E i \in 1..Len(tasks), v \in Results : HandlerReturn(i, v)
    \/ \E i \in 1..Len(tasks), exception \in HandlerExceptions : HandlerRaise(i, exception)
    \/ \E i \in 1..Len(tasks), ok \in BOOLEAN : BeforeTrailingMetadata(i, ok)
    \/ \E i \in 1..Len(tasks), ok \in BOOLEAN : BeforeResponseMessage(i, ok)
    \/ \E i \in 1..Len(tasks), ok \in BOOLEAN : AfterRequest(i, ok)
    \/ Disconnect
    \/ \E i \in 1..Len(tasks) : TaskCancelled(i)

SpecHandler == Init /\ [][NextHandler]_vars

\* The event loop is fair to task i: a segment of the task that is ready
\* to run does run.  The hooks return; when the handler moves is up to the
\* handler, which may stay blocked for ever.
FairTask(i) ==
    /\ WF_vars(i \in 1..Len(tasks) /\ Start(i))
    /\ WF_vars(BeforeRequest(i, TRUE))
    /\ WF_vars(BeforeRequestMessage(i, TRUE))
    /\ WF_vars(BeforeRequestData(i, TRUE))
    /\ WF_vars(QueueWake(i))
    /\ WF_vars(BeforeLeadingMetadata(i, TRUE))
    /\ WF_vars(BeforeTrailingMetadata(i, TRUE))
    /\ WF_vars(BeforeResponseMessage(i, TRUE))
    /\ WF_vars(AfterRequest(i, TRUE))
    /\ WF_vars(TaskCancelled(i))

\* The RPCs the client of SpecLive calls: a unary one, a stream-out one and
\* a stream-in one.
LiveRPCs == {"uu", "us", "su"}

\* The frames the client of SpecLive sends.
LiveTypes == {"MESSAGE", "CANCEL", "END_OF_STREAM"}

\* The connection loop with its send side for a client that opens calls,
\* feeds, ends and cancels them and disconnects; user code does not raise.
NextLive ==
    \/ AfterAccept(<<>>)
    \/ \E rpc \in LiveRPCs, seq \in Seqs, type \in LiveTypes : Receive(rpc, seq, type)
    \/ \E i \in 1..Len(tasks) : Start(i)
    \/ \E i \in 1..Len(tasks) : BeforeRequest(i, TRUE)
    \/ \E i \in 1..Len(tasks) : BeforeRequestMessage(i, TRUE)
    \/ \E i \in 1..Len(tasks) : BeforeRequestData(i, TRUE)
    \/ \E i \in 1..Len(tasks) : BeforeLeadingMetadata(i, TRUE)
    \/ \E i \in 1..Len(tasks) : HandlerNext(i)
    \/ \E i \in 1..Len(tasks) : QueueWake(i)
    \/ \E i \in 1..Len(tasks) : HandlerYield(i)
    \/ \E i \in 1..Len(tasks), v \in Results : HandlerReturn(i, v)
    \/ \E i \in 1..Len(tasks) : BeforeTrailingMetadata(i, TRUE)
    \/ \E i \in 1..Len(tasks) : BeforeResponseMessage(i, TRUE)
    \/ \E i \in 1..Len(tasks) : AfterRequest(i, TRUE)
    \/ Disconnect
    \/ \E i \in 1..Len(tasks) : TaskCancelled(i)
    \/ SendTaskGet
    \/ LoopSend

\* NextLive under asyncio's scheduling: every ready task gets to run, the
\* send task and the loop included.
SpecLive ==
    /\ Init
    /\ [][NextLive]_vars
    /\ \A i \in 1..MaxFrames : FairTask(i)
    /\ WF_vars(SendTaskGet)
    /\ WF_vars(LoopSend)

\* A helper StreamingQueue, its producer and its consumer.
NextQueue ==
    \/ add
    \/ close
    \/ cancel
    \/ anext_entry
    \/ anext_wake

SpecQueue == Init /\ [][NextQueue]_vars

\* One call of the ASGI application: the handshake and the lifecycle
\* handlers around the connection loop.
NextHandshake ==
    \/ \E scope \in Scopes : AsgiCall(scope)
    \/ \E event \in {"websocket.connect", "websocket.disconnect"} :
            WebsocketConnect(event)
    \/ \E http_response \in {None} \cup HookStatus, raised \in {<<>>} \cup HandshakeExceptions :
            BeforeConnection(http_response, raised)
    \/ \E raised \in {<<>>} \cup HandshakeExceptions : LifecycleAfterAccept(raised)
    \/ \E raised \in {<<>>} \cup HandshakeExceptions : ConnectionLoop(raised)
    \/ LifecycleAfterConnection

SpecHandshake == Init /\ [][NextHandshake]_vars

\* Validators called on values of every kind.
NextValidate ==
    \/ \E constraint \in Comparisons, value \in -MaxInt..MaxInt, c \in -MaxInt..MaxInt :
            CheckConstraint(constraint, value, c)
    \/ \E self \in Structs, return_all_errors \in BOOLEAN :
       \E validators \in UNION {[1..n -> ValidatorDefinitions] : n \in 0..MaxValidators} :
            Validate(self, validators, return_all_errors)

SpecValidate == Init /\ [][NextValidate]_vars

\* A Response and the task that calls its methods one after another.
NextResponse ==
    \/ \E send_immediately \in BOOLEAN : set_leading_metadata(send_immediately)
    \/ ResponseSend
    \/ ResponseConsume
    \/ set_trailing_metadata
    \/ \E ok \in BOOLEAN : ResponseHook(ok)

SpecResponse == Init /\ [][NextResponse]_vars

\* ---- properties ---------------------------------------------------------
Calls == 1..Len(calls)

\* The frames enqueued for call c, in enqueue order.
FramesIn(q, c) == SelectSeq(q, LAMBDA f : f.call = c)

FramesOf(c) == FramesIn(enqueued, c)

\* The task that opened call c and runs its dispatch.
DispatchTask(c) ==
    tasks[CHOOSE i \in 1..Len(tasks) : tasks[i].role = "call" /\ tasks[i].call = c]

\* Call c is live: it was installed and its dispatch has not reached the
\* finally block.
Live(c) == DispatchTask(c).pc \notin {"after_request", "done"}

Terminal(f) ==
    \/ f.type \in {"ERROR", "END_OF_STREAM"}
    \/ f.type = "MESSAGE" /\ ~response_streams(f.call)

Indices(q, P(_)) == {j \in 1..Len(q) : P(q[j])}

\* C1: at most one live call exists per key, the live call of a key is the
\* one the live-call map holds (so a frame with that key is fed to it), and
\* no call's handler is invoked twice.
C1_OneLiveCallPerKey ==
    /\ \A c, d \in Calls : (c # d /\ Key(c) = Key(d)) => ~(Live(c) /\ Live(d))
    /\ \A c \in Calls : Live(c) => requests[Key(c)] = c
    /\ \A c \in Calls : calls[c].invoked <= 1
    /\ \A i \in 1..Len(tasks) :
            tasks[i].role = "feed" => tasks[i].call < i /\ tasks[i].call \in Calls

\* Two frames with the same unseen key arrived back to back: the second is
\* fed to the call of the first, which is still in before_request.
C1_Witness ==
    /\ Len(tasks) = 2
    /\ tasks[1].role = "call" /\ tasks[1].pc = "before_request"
    /\ tasks[2].role = "feed" /\ tasks[2].frame.type = "MESSAGE"
    /\ tasks[2].call = tasks[1].call
    /\ Len(calls) = 1

\* C2: once the dispatch of a call has left its try block, on whatever
\* path, the key no longer leads to the call and after_request was invoked
\* exactly once, and not before.
C2_FinalStep ==
    \A c \in Calls :
        IF Live(c)
        THEN calls[c].after_request = 0 /\ requests[Key(c)] = c
        ELSE calls[c].after_request = 1 /\ requests[Key(c)] # c

\* A call whose handler was running when the disconnect cancelled its task,
\* and whose task is over.
C2_Witness ==
    \E c \in Calls :
        /\ conn = "closed"
        /\ DispatchTask(c).pc = "done"
        /\ calls[c].invoked = 1
        /\ ~calls[c].returned /\ ~calls[c].raised /\ ~calls[c].cancelled
        /\ calls[c].after_request = 1

\* C3: a call has at most one terminal frame (ERROR, END_OF_STREAM, the
\* MESSAGE of a unary-out call); when it is enqueued the key no longer leads
\* to the call and no frame of the call follows it.
C3_TerminalFrameEndsCall ==
    \A c \in Calls :
        LET fs == FramesOf(c)
            terminal == Indices(fs, Terminal)
        IN  /\ Cardinality(terminal) <= 1
            /\ \A j \in terminal : j = Len(fs) /\ requests[Key(c)] # c

\* C4: once a CANCEL frame was fed to a call, no step enqueues a frame for
\* that call.
C4_NoFrameAfterCancel ==
    [][\A c \in Calls : calls[c].cancelled => FramesIn(enqueued', c) = FramesOf(c)]_vars

\* C5: after a CANCEL frame was processed for a call, the live-call map does
\* not hold the call.
C5_CancelReleasesKey ==
    \A c \in Calls : calls[c].cancelled => requests[Key(c)] # c

\* C6: the handler of a stream-in call observes the payloads in the order
\* their frames arrived (the n-th frame on the wire carries payload n).
C6_InboundOrder ==
    \A c \in Calls :
        \A j, k \in 1..Len(calls[c].observed) :
            j < k => calls[c].observed[j] < calls[c].observed[k]

\* C7: the frames written to the transport are a prefix of the frames
\* enqueued on the send queue.
C7_WrittenIsPrefix ==
    /\ Len(written) <= Len(enqueued)
    /\ written = SubSeq(enqueued, 1, Len(written))

\* Frames of two calls went through the queue and some are still waiting.
C7_Witness ==
    /\ Len(written) >= 2
    /\ written[1].call # written[2].call
    /\ sendQueue # <<>>

\* C8: for a call that was never cancelled and whose dispatch ran to its end
\* without an exception on an open connection: unary-out, exactly one
\* MESSAGE frame, with the request's seq and the result; stream-out, one
\* MESSAGE frame per yielded item in yield order, then exactly one
\* END_OF_STREAM frame with the trailing metadata, and no frame after it.
C8_HappyPathFrames ==
    \A c \in Calls :
        (/\ ~Live(c) /\ calls[c].returned
         /\ ~calls[c].cancelled /\ ~calls[c].raised
         /\ conn = "open" /\ faults = 0)
        => LET fs == FramesOf(c)
               messages == SelectSeq(fs, LAMBDA f : f.type = "MESSAGE")
               eos == Indices(fs, LAMBDA f : f.type = "END_OF_STREAM")
           IN  IF ~response_streams(c)
               THEN /\ Len(messages) = 1
                    /\ messages[1].seq = calls[c].seq
                    /\ messages[1].data = calls[c].result
               ELSE /\ Len(messages) = calls[c].yields
                    /\ \A j \in 1..Len(messages) : messages[j].data = j
                    /\ eos = {Len(fs)}
                    /\ fs[Len(fs)].trailing_metadata = calls[c].trailing_metadata

\* C9: among the frames of a call at most one carries leading metadata, it
\* carries the stored value, and no frame after the call's first MESSAGE
\* frame carries any.
C9_LeadingMetadataOnce ==
    \A c \in Calls :
        LET fs == FramesOf(c)
            carrying == Indices(fs, LAMBDA f : f.leading_metadata # None)
        IN  /\ Cardinality(carrying) <= 1
            /\ \A j \in carrying : fs[j].leading_metadata = calls[c].leading_metadata
            /\ \A j, k \in 1..Len(fs) :
                    (j < k /\ fs[j].type = "MESSAGE") => fs[k].leading_metadata = None

\* A METADATA frame handed out the leading metadata and a MESSAGE frame of
\* the same call followed it.
C9_Witness ==
    \E c \in Calls :
        LET fs == FramesOf(c)
        IN  /\ Len(fs) >= 2
            /\ fs[1].type = "METADATA" /\ fs[1].leading_metadata # None
            /\ fs[2].type = "MESSAGE"

\* C10: no METADATA frame and no MESSAGE frame of a stream-out call carries
\* trailing metadata.
C10_TrailingOnlyOnTerminal ==
    \A j \in 1..Len(enqueued) :
        LET f == enqueued[j]
        IN  (f.call # None /\ ~Terminal(f)) => f.trailing_metadata = None

\* A stream-out call whose handler set trailing metadata: its MESSAGE frame
\* went out and then the END_OF_STREAM frame that carries the metadata.
C10_Witness ==
    \E c \in Calls :
        LET fs == FramesOf(c)
        IN  /\ response_streams(c)
            /\ Len(fs) = 2
            /\ fs[1].type = "MESSAGE"
            /\ fs[2].type = "END_OF_STREAM" /\ fs[2].trailing_metadata # None

\* The live call of a frame's key, read off the live-call map.
LiveCallOf(message) ==
    IF message.rpc \in RPCs THEN requests[<<message.rpc, message.seq>>] ELSE None

\* Task i takes its first step.
Starts(i) == tasks[i].pc = "start" /\ tasks'[i].pc # "start"

\* C11: a MESSAGE frame that names an unregistered RPC is answered in one
\* step by exactly one frame, ERROR with code NOT_FOUND and the frame's seq;
\* no call is created (so no handler runs), the live-call map is left alone
\* and the task of the frame is over.
C11_NotFound ==
    [][\A i \in 1..Len(tasks) :
        (Starts(i) /\ tasks[i].frame.type = "MESSAGE" /\ tasks[i].frame.rpc \notin RPCs)
        => /\ Len(enqueued') = Len(enqueued) + 1
           /\ SubSeq(enqueued', 1, Len(enqueued)) = enqueued
           /\ enqueued'[Len(enqueued')].type = "ERROR"
           /\ enqueued'[Len(enqueued')].code = NOT_FOUND
           /\ enqueued'[Len(enqueued')].seq = tasks[i].frame.seq
           /\ calls' = calls /\ requests' = requests
           /\ tasks'[i].pc = "done"]_vars

\* Two MESSAGE frames for an unregistered RPC were answered, each by its
\* own NOT_FOUND frame.
C11_Witness ==
    /\ Len(tasks) = 2
    /\ \A i \in 1..2 : /\ tasks[i].frame.rpc \notin RPCs
                        /\ tasks[i].frame.type = "MESSAGE"
                        /\ tasks[i].pc = "done"
    /\ Len(enqueued) = 2
    /\ enqueued[2].code = NOT_FOUND
    /\ calls = <<>>

\* C12: a CANCEL or END_OF_STREAM frame whose key has no live call is
\* dropped in one step: the task is over without having awaited a hook, no
\* call is created, nothing is enqueued and the live-call map is unchanged.
C12_DroppedWithoutCall ==
    [][\A i \in 1..Len(tasks) :
        (/\ Starts(i)
         /\ tasks[i].frame.type \in {"CANCEL", "END_OF_STREAM"}
         /\ LiveCallOf(tasks[i].frame) = None)
        => /\ tasks'[i].pc = "done" /\ tasks'[i].role = "none"
           /\ calls' = calls /\ requests' = requests
           /\ enqueued' = enqueued /\ sendQueue' = sendQueue
           /\ faults' = faults]_vars

\* An END_OF_STREAM frame arrived after the call of its key had ended, and
\* was dropped.
C12_Witness ==
    /\ Len(tasks) = 2 /\ Len(calls) = 1
    /\ tasks[1].role = "call" /\ tasks[1].pc = "done"
    /\ tasks[2].frame.type = "END_OF_STREAM"
    /\ tasks[2].role = "none" /\ tasks[2].pc = "done"

\* C13: a call opened by a METADATA frame, once before_request has returned
\* and with nothing else happening on the connection, has the frame's
\* metadata as its client metadata, was delivered no input item, has its
\* handler invoked and got no ERROR frame, whether unary-in or stream-in
\* (no user code raises and the handler leaves the Response alone).
C13_MetadataOpensCall ==
    \A c \in Calls :
        LET t == DispatchTask(c)
        IN  (/\ t.frame.type = "METADATA"
             /\ t.pc \notin {"start", "before_request"}
             /\ Len(tasks) = 1 /\ conn = "open" /\ faults = 0 /\ ops = 0)
            => /\ calls[c].invoked = 1
               /\ calls[c].metadata = t.frame.metadata
               /\ calls[c].queue = <<>> /\ calls[c].observed = <<>>
               /\ \A j \in 1..Len(FramesOf(c)) : FramesOf(c)[j].type # "ERROR"

\* C14: when a METADATA frame is fed to an open stream-in call and
\* before_request_data returns, the call's client metadata is unchanged and
\* the request error surfaces as an ERROR frame with the frame's seq.
C14_LaterMetadataRejected ==
    [][\A i \in 1..Len(tasks) :
        (/\ tasks[i].role = "feed" /\ tasks[i].frame.type = "METADATA"
         /\ tasks[i].pc = "before_request_data" /\ tasks'[i].pc # "before_request_data"
         /\ ~tasks[i].cancel /\ faults' = faults
         /\ request_streams(tasks[i].call))
        => /\ calls'[tasks[i].call].metadata = calls[tasks[i].call].metadata
           /\ Len(enqueued') = Len(enqueued) + 1
           /\ enqueued'[Len(enqueued')].type = "ERROR"
           /\ enqueued'[Len(enqueued')].seq = tasks[i].frame.seq]_vars

\* The frame fed by task i makes process_message raise: a unary request
\* takes MESSAGE and CANCEL only, a streaming request that has not ended
\* takes METADATA only before its first MESSAGE.
FeedRaises(i) ==
    LET r == calls[tasks[i].call]
        type == tasks[i].frame.type
    IN  /\ tasks[i].pc = "before_request_data"
        /\ IF request_streams(tasks[i].call)
           THEN type = "METADATA" /\ ~r.ended /\ ~r.opening_request
           ELSE type \in {"METADATA", "END_OF_STREAM"}

\* C15: a step in which feeding a frame to an open call raises (a hook of
\* the feed path raises, or process_message does) enqueues exactly one
\* frame, ERROR with the frame's seq; the connection is still open with no
\* websocket.close, the live-call map is unchanged and so are every call
\* and every other task.
C15_FeedErrorIsLocal ==
    [][\A i \in 1..Len(tasks) :
        (/\ tasks[i].role = "feed"
         /\ tasks[i].pc \in {"before_request_data", "before_request_message"}
         /\ tasks'[i].pc # tasks[i].pc
         /\ faults' # faults \/ FeedRaises(i))
        => /\ Len(enqueued') = Len(enqueued) + 1
           /\ SubSeq(enqueued', 1, Len(enqueued)) = enqueued
           /\ enqueued'[Len(enqueued')].type = "ERROR"
           /\ enqueued'[Len(enqueued')].seq = tasks[i].frame.seq
           /\ conn' = "open" /\ closes' = closes
           /\ requests' = requests
           /\ calls' = calls
           /\ \A j \in 1..Len(tasks) : j # i => tasks'[j] = tasks[j]]_vars

\* Two calls are open; a frame fed to the first raised and got its ERROR
\* frame, and both calls are still in the live-call map.
C15_Witness ==
    /\ Len(tasks) = 3 /\ Len(calls) = 2
    /\ tasks[3].role = "feed" /\ tasks[3].call = 1 /\ tasks[3].pc = "done"
    /\ FramesOf(1) # <<>> /\ FramesOf(1)[1].type = "ERROR"
    /\ Live(1) /\ Live(2)
    /\ requests[Key(1)] = 1 /\ requests[Key(2)] = 2
    /\ conn = "open"

\* C16: a step that opens a call - also for a key an earlier call has
\* used - installs a call in the initial state (not cancelled, not ended,
\* empty queue, nothing observed, leading metadata unset and unsent, no
\* trailing metadata, handler not yet invoked) under the frame's key and
\* leaves every earlier call as it was; and a task that feeds a call changes
\* no other call.
C16_ReusedKeyFreshCall ==
    [][/\ Len(calls') > Len(calls) =>
            LET n == Len(calls')
                r == calls'[n]
            IN  /\ n = Len(calls) + 1
                /\ ~r.cancelled /\ ~r.ended /\ r.opening_request
                /\ r.queue = <<>> /\ r.observed = <<>>
                /\ ~r.close_event /\ ~r.cancel_event
                /\ r.leading_metadata = None /\ ~r.leading_metadata_sent
                /\ r.trailing_metadata = None
                /\ r.invoked = 0 /\ r.after_request = 0
                /\ requests'[<<r.rpc, r.seq>>] = n
                /\ \A c \in Calls : calls'[c] = calls[c]
       /\ \A i \in 1..Len(tasks) :
            (tasks[i].role = "feed" /\ tasks'[i] # tasks[i])
            => \A c \in Calls : c # tasks[i].call => calls'[c] = calls[c]]_vars

\* A stream-in call was ended by END_OF_STREAM and terminated after its
\* response; a MESSAGE frame with the same key opened a second call, which
\* is not ended and whose handler was invoked.
C16_Witness ==
    /\ Len(calls) = 2
    /\ Key(1) = Key(2)
    /\ calls[1].ended /\ calls[1].leading_metadata_sent /\ ~Live(1)
    /\ calls[2].invoked = 1
    /\ ~calls[2].ended /\ ~calls[2].leading_metadata_sent

\* C17: when the iterator over a streaming request's queue has ended
\* normally, the handler has observed every item that was in the queue or
\* already observed when close was set.
C17_CloseKeepsItems ==
    \A c \in Calls :
        calls[c].iter = "stopped" => Len(calls[c].observed) >= calls[c].at_close

\* C18: for the StreamingQueue helper, an observation that ends while the
\* cancel event is set - whether it starts after cancel() or was already
\* waiting - raises SwillRequestCancelled, whatever is queued and whether
\* or not close was set; and a consumer waiting while the cancel event is
\* set can always be woken.
C18_CancelWins ==
    /\ [](sq.pc = "wait" /\ sq._cancel_event => ENABLED anext_wake)
    /\ [][(sq._cancel_event /\ Len(sq'.results) > Len(sq.results))
            => sq'.results[Len(sq'.results)] = Raised("SwillRequestCancelled")]_vars

\* The consumer was waiting when cancel() was called and its observation
\* raised SwillRequestCancelled; so did its next observation, which did not
\* wait, with the items added in between still queued.
C18_Witness ==
    /\ sq.waits = 1
    /\ Len(sq.results) = 2
    /\ sq.results[1] = Raised("SwillRequestCancelled")
    /\ sq.results[2] = Raised("SwillRequestCancelled")
    /\ Len(sq._queue) = MaxAdd

\* C19: the step in which the loop processes websocket.disconnect cancels
\* every task of the connection that is not done, and once the loop is
\* left no websocket.send is written and the send task takes nothing more
\* from the queue, whatever is still enqueued.
C19_DisconnectCancelsAll ==
    /\ [][(conn = "open" /\ conn' = "closed")
            => \A i \in 1..Len(tasks) : tasks[i].pc # "done" => tasks'[i].cancel]_vars
    /\ [][conn = "closed"
            => written' = written /\ sendTask' = sendTask
               /\ Len(sendQueue') >= Len(sendQueue)]_vars

\* Two calls were in flight when the disconnect was processed: both tasks
\* are cancelled, and a frame one of them had enqueued is still unwritten.
C19_Witness ==
    /\ conn = "closed"
    /\ Len(tasks) = 2
    /\ \A i \in 1..2 : tasks[i].role = "call" /\ tasks[i].cancel
    /\ Len(written) < Len(enqueued)

\* C20: once the dispatch of a call whose handler raised
\* CloseConnection(code=c) is over, exactly one websocket.close event was
\* emitted, with code max(1000, c).
C20_CloseConnectionCloses ==
    \A c \in Calls :
        (/\ calls[c].exception # <<>>
         /\ calls[c].exception[1].class = "CloseConnection"
         /\ DispatchTask(c).pc = "done")
        => /\ Len(closes) = 1
           /\ closes[1].type = "websocket.close"
           /\ closes[1].code = IF calls[c].exception[1].code >= 1000
                                THEN calls[c].exception[1].code ELSE 1000

\* C21: when the subprotocols offered at websocket.connect do not contain
\* swill/1, the call ends having written exactly http.response.start with
\* status 406 and then http.response.body, without a websocket.accept and
\* without entering after_accept, the connection loop or after_connection.
C21_SubprotocolRefused ==
    (hs.pc = "done" /\ hs.event = "websocket.connect"
        /\ "swill/1" \notin hs.scope.subprotocols)
    => /\ hs.sent = <<http_response_start(406), http_response_body>>
       /\ \A k \in 1..Len(hs.lifecycle) :
              hs.lifecycle[k] \notin {"after_accept", "_connection_loop",
                                      "after_connection"}

\* C22: a handshake that caught CloseConnection(code=c) ends having written
\* exactly http.response.start and http.response.body, the status being c
\* when 200 <= c <= 999 and 403 for every other c.
C22_HandshakeStatus ==
    (hs.pc = "done" /\ hs.e # None)
    => hs.sent = <<http_response_start(IF 200 <= hs.e /\ hs.e <= 999
                                       THEN hs.e ELSE 403),
                   http_response_body>>

\* C23: a set_leading_metadata that finds leading metadata already set by
\* an earlier call, or already consumed or sent, raises SwillResponseError
\* and leaves the stored metadata as it was.
C23_LeadingMetadataSetOnce ==
    \A k \in 1..Len(rs.log) :
        LET call == rs.log[k]
        IN  (call.method = "set_leading_metadata"
                /\ (call.was # None \/ call.was_sent))
            => call.raised = "SwillResponseError" /\ call.is = call.was

\* Task i decodes the data of its frame in this step and the decoding
\* raises SwillValidationError.
ValidationFails(i) ==
    /\ tasks[i].pc \in {"before_request", "before_request_data"}
    /\ tasks'[i] # tasks[i]
    /\ process_message(calls[tasks[i].call], tasks[i].frame).exception
            = "SwillValidationError"

\* C24: when decoding the data of an inbound frame raises a validation
\* error, exactly one frame is enqueued, an ERROR with code VALIDATION_ERROR,
\* the seq of the frame and the per-field descriptors as data, and the call
\* ends: its key is released.
C24_ValidationError ==
    [][\A i \in 1..Len(tasks) :
          ValidationFails(i)
          => /\ Len(enqueued') = Len(enqueued) + 1
             /\ LET f == enqueued'[Len(enqueued')]
                IN  /\ f.type = "ERROR" /\ f.code = VALIDATION_ERROR
                    /\ f.seq = tasks[i].frame.seq /\ f.data # None
             /\ requests'[Key(tasks[i].call)] # tasks[i].call]_vars

\* C25: when the bytes of a websocket.receive event are no envelope, the
\* dispatcher enqueues an ERROR frame with code INTERNAL_ERROR or the
\* connection is closed, and no call is created.
C25_EnvelopeFailureSurfaces ==
    [][\A i \in 1..Len(tasks) :
          (tasks[i].pc = "start" /\ tasks[i].frame.payload = "malformed"
              /\ tasks'[i].pc # "start")
          => /\ calls' = calls
             /\ \/ conn' = "closed"
                \/ /\ Len(enqueued') = Len(enqueued) + 1
                   /\ enqueued'[Len(enqueued')].type = "ERROR"
                   /\ enqueued'[Len(enqueued')].code = INTERNAL_ERROR]_vars

\* The positions of hook in the hooks call c entered.
Positions(c, hook) == {k \in 1..Len(calls[c].hooks) : calls[c].hooks[k] = hook}

\* Every hook a comes before every hook b among the hooks of call c.
Precedes(c, a, b) ==
    \A j \in Positions(c, a), k \in Positions(c, b) : j < k

\* C26: the hooks of one call fire in the listed order: before_request
\* first, then before_request_message, before_leading_metadata before the
\* first before_response_message, before_trailing_metadata after the last
\* before_response_message, and after_request last.
C26_HookOrder ==
    \A c \in 1..Len(calls) :
        /\ calls[c].hooks[1] = "before_request"
        /\ Positions(c, "before_request") = {1}
        /\ \A h \in {"before_leading_metadata", "before_response_message",
                      "before_trailing_metadata", "after_request"} :
               Precedes(c, "before_request_message", h)
        /\ Precedes(c, "before_leading_metadata", "before_response_message")
        /\ Precedes(c, "before_response_message", "before_trailing_metadata")
        /\ \A h \in LifecycleHooks \ {"after_request"} :
               Precedes(c, h, "after_request")

\* The handler of call c has ended and its result is on its way out.
HandlerEnded(c) ==
    /\ c \in Calls
    /\ calls[c].returned
    /\ DispatchTask(c).pc = "before_trailing_metadata"

\* The terminal frame of call c was handed to the transport.
TerminalWritten(c) ==
    \E k \in 1..Len(written) : written[k].call = c /\ Terminal(written[k])

\* The i-th frame was received and its task has not run yet.
Undispatched(i) == i \in 1..Len(tasks) /\ tasks[i].pc = "start"

\* C27: a handler that stays blocked does not hold up the other calls of
\* the connection: under fair scheduling every received frame is
\* dispatched, and every call whose handler has ended gets its terminal
\* frame written to the transport, unless the client disconnects first.
C27_NoHeadOfLineBlocking ==
    \A i \in 1..MaxFrames :
        /\ Undispatched(i) ~> ~Undispatched(i)
        /\ HandlerEnded(i) ~> (TerminalWritten(i) \/ conn = "closed")

\* Call 1 is in its handler, which has not moved, while the terminal frame
\* of call 2, opened after it, is written.
C27_Witness ==
    /\ Len(calls) = 2
    /\ DispatchTask(1).pc = "handler" /\ calls[1].yields = 0
    /\ calls[1].observed = <<>>
    /\ calls[2].returned /\ TerminalWritten(2)
    /\ conn = "open"

\* C28: when the result of a unary-out handler, or the next item of a
\* stream-out handler, reaches the dispatcher of a call whose cancelled flag
\* is set, it is not enqueued, the generator of a stream-out call is thrown
\* SwillRequestCancelled and closed, the dispatch goes to its final step,
\* and the call gets no END_OF_STREAM frame.
C28_CancelledResultDropped ==
    \A c \in Calls :
        calls[c].dropped
        => /\ \A k \in 1..Len(FramesOf(c)) :
                  /\ FramesOf(c)[k].type # "END_OF_STREAM"
                  /\ FramesOf(c)[k].type = "MESSAGE"
                         => /\ response_streams(c)
                            /\ FramesOf(c)[k].data # calls[c].result
           /\ response_streams(c) => calls[c].closed
           /\ DispatchTask(c).pc \in {"after_request", "done"}

\* A stream-out call was cancelled after its first item went out, and its
\* second item was dropped.
C28_Witness ==
    \E c \in Calls :
        /\ calls[c].dropped /\ response_streams(c)
        /\ calls[c].yields = 2
        /\ \E k \in 1..Len(FramesOf(c)) : FramesOf(c)[k].type = "MESSAGE"

\* The handler of call c returned an async generator.
ReturnedGenerator(c) == calls[c].invoked > 0 /\ _handlers[calls[c].rpc].generator

\* C29: whenever the invocation of a call's handler returned an async
\* generator, that generator has been closed when the dispatch of the call
\* is at its final step, whichever way the dispatch got there.
C29_GeneratorClosed ==
    \A c \in Calls :
        (ReturnedGenerator(c) /\ DispatchTask(c).pc \in {"after_request", "done"})
        => calls[c].closed

\* The step in which an exception e raised for the handler of call c leaves
\* the dispatch of the call.
HandlerRaises(c, e) ==
    /\ calls[c].exception = <<>>
    /\ calls'[c].exception = <<e>>

\* The step appends to the frames sent exactly one frame: an ERROR frame of
\* call c with the seq of its request, the given code and message.
OneErrorFrame(c, code, message) ==
    /\ enqueued' = Append(enqueued, enqueued'[Len(enqueued')])
    /\ sendQueue' = Append(sendQueue, enqueued'[Len(enqueued')])
    /\ LET f == enqueued'[Len(enqueued')]
       IN  /\ f.type = "ERROR" /\ f.call = c /\ f.seq = calls[c].seq
           /\ f.code = code /\ f.message = message
    /\ DispatchTask(c)'.pc = "after_request"

Feeds(i) ==
    /\ tasks[i].pc = "before_request_data"
    /\ tasks'[i].pc # "before_request_data"
    /\ ~tasks[i].cancel
    /\ faults' = faults

\* C31: a MESSAGE frame fed to a streaming request that has ended, by
\* END_OF_STREAM or by CANCEL, is discarded: the request and its queue stay
\* as they are, before_request_message is not awaited and no frame is
\* enqueued.
C31_EndedDiscardsMessages ==
    [][\A i \in 1..Len(tasks) :
           LET c == tasks[i].call
           IN  (/\ tasks[i].role = "feed"
                /\ Feeds(i)
                /\ tasks[i].frame.type = "MESSAGE"
                /\ request_streams(c)
                /\ calls[c].ended \/ calls[c].cancelled)
               => /\ tasks'[i].pc = "done"
                  /\ calls'[c] = calls[c]
                  /\ enqueued' = enqueued]_vars

\* The hooks awaited for one call, by its dispatch or by a feed.
PerCallHooks == LifecycleHooks \cup {"before_request_data"}

\* In this step task i calls a hook for call c.
HookFires(i, c) ==
    /\ tasks'[i].call = c
    /\ tasks'[i].pc \in PerCallHooks
    /\ tasks'[i].pc # tasks[i].pc

\* before_request is the first hook of call c and fires once; after_request
\* fires at most once, has fired when the dispatch is over, and is the last
\* hook of the dispatch.
FirstAndLast(c) ==
    /\ Positions(c, "before_request") = {1}
    /\ calls[c].after_request <= 1
    /\ DispatchTask(c).pc = "done" => calls[c].after_request = 1
    /\ Positions(c, "after_request") \subseteq {Len(calls[c].hooks)}

\* before_request_data is called by task i exactly when the task finds its
\* frame's call open, once, and by no task that opens a call.
OncePerFedFrame(i) ==
    /\ (tasks'[i].pc = "before_request_data" /\ tasks[i].pc # "before_request_data")
           => (tasks[i].pc = "start" /\ tasks'[i].role = "feed")
    /\ (tasks[i].pc = "start" /\ tasks'[i].role = "feed")
           => tasks'[i].pc = "before_request_data"

\* C32: for each call before_request fires exactly once and before any
\* other hook of the call; before_request_data fires exactly once for each
\* frame fed to the open call and never for the opening frame;
\* after_request fires exactly once and last: once it has fired, no hook
\* fires for the call and the dispatch of the call enqueues no frame.
C32_PerCallHooks ==
    /\ [](\A c \in Calls : FirstAndLast(c))
    /\ [][\A i \in 1..Len(tasks) :
              /\ OncePerFedFrame(i)
              /\ \A c \in Calls :
                     calls[c].after_request >= 1
                     => /\ ~HookFires(i, c)
                        /\ (tasks[i].role = "call" /\ tasks[i].call = c
                                /\ tasks'[i] # tasks[i])
                               => enqueued' = enqueued]_vars

\* The handshake of this call of the application was accepted.
Accepted == websocket_accept \in {hs.sent[k] : k \in 1..Len(hs.sent)}

\* How often name was entered in this call of the application.
Invoked(name) == Cardinality({k \in 1..Len(hs.lifecycle) : hs.lifecycle[k] = name})

\* C33: for an accepted handshake after_accept is invoked once and
\* after_connection exactly once after it, however the connection loop was
\* left; when the handshake is refused or the request answered with 404,
\* neither is invoked and the loop never starts.
C33_ConnectionHooks ==
    /\ Invoked("after_accept") <= 1
    /\ Invoked("_connection_loop") <= 1
    /\ Invoked("after_connection") <= 1
    /\ ~Accepted
          => /\ Invoked("after_accept") = 0
             /\ Invoked("_connection_loop") = 0
             /\ Invoked("after_connection") = 0
    /\ (Accepted /\ hs.pc # "after_accept") => Invoked("after_accept") = 1
    /\ (Accepted /\ hs.pc = "done")
          => hs.lifecycle \in {<<"before_connection", "after_accept", "after_connection">>,
                               <<"before_connection", "after_accept", "_connection_loop",
                                 "after_connection">>}
    /\ Invoked("_connection_loop") = 1
          => hs.lifecycle[2] = "after_accept" /\ hs.lifecycle[3] = "_connection_loop"

\* An exception that is no CloseConnection left the connection loop, and
\* after_connection was invoked before it left the application.
C33_Witness ==
    /\ hs.pc = "done" /\ Accepted
    /\ hs.raised = "Exception"
    /\ hs.lifecycle = <<"before_connection", "after_accept", "_connection_loop",
                        "after_connection">>

\* The items the observations of the helper queue returned, in order.
ItemsObserved ==
    LET returned == SelectSeq(sq.results, LAMBDA o : o.raised = "none")
    IN  [k \in 1..Len(returned) |-> returned[k].item]

\* C34: for the StreamingQueue helper, an observation that begins after
\* close() was called raises StopAsyncIteration and returns no item, also
\* when items added before the close are queued; the items observed are
\* the items added, in insertion order, and an observation of an empty
\* queue that is neither closed nor cancelled blocks.
C34_CloseEndsHelperIteration ==
    /\ [][(/\ sq.pc = "wait" /\ sq.closed_at_entry /\ ~sq._cancel_event
            /\ Len(sq'.results) > Len(sq.results))
           => sq'.results[Len(sq'.results)] = Raised("StopAsyncIteration")]_vars
    /\ [](ItemsObserved = [k \in 1..Len(ItemsObserved) |-> k])
    /\ []((/\ sq.pc = "wait" /\ sq._queue = <<>>
            /\ ~sq._close_event /\ ~sq._cancel_event)
           => ~ENABLED anext_wake)

\* The step in which the frame of task i is handed to process_message, as
\* the opening frame of its call or fed to it, the hook before it having
\* returned.
Processes(i) ==
    /\ tasks[i].pc \in {"before_request", "before_request_data"}
    /\ tasks'[i].pc # tasks[i].pc
    /\ ~tasks[i].cancel
    /\ faults' = faults

\* The classes an except clause for SwillRequestError catches.
SwillRequestError == {"SwillRequestError", "SwillRequestCancelled"}

\* C35: a unary request handed a MESSAGE frame records the decoded payload
\* as data; handed a CANCEL frame it sets the cancelled flag, awaits no
\* lifecycle hook and leaves data as it is; handed a frame of any other
\* type it raises a SwillRequestError and leaves data and the cancelled
\* flag as they are.
C35_UnaryProcessMessage ==
    [][\A i \in 1..Len(tasks) :
          LET c == tasks[i].call
              message == tasks[i].frame
              p == process_message(calls[c], message)
          IN  (Processes(i) /\ ~request_streams(c))
              => IF message.type = "MESSAGE"
                 THEN calls'[c].data = message.data
                 ELSE IF message.type = "CANCEL"
                 THEN /\ calls'[c].cancelled
                      /\ calls'[c].data = calls[c].data
                      /\ tasks'[i].pc \notin PerCallHooks
                 ELSE /\ p.out = "raise"
                      /\ p.exception \in SwillRequestError
                      /\ calls'[c].data = calls[c].data
                      /\ calls'[c].cancelled = calls[c].cancelled]_vars

\* Task i is inside the invocation of a handler.
InInvocation(i) == tasks[i].role = "call" /\ tasks[i].pc \in {"handler", "queue_wait"}

\* Task i is inside _feed_request.
InFeed(i) ==
    tasks[i].role = "feed" /\ tasks[i].pc \in {"before_request_data", "before_request_message"}

\* C36: during every handler invocation and every frame-feed
\* current_request and current_response refer to the request and the
\* response of the task's call, and when the task is over both are back at
\* the values they had before.
C36_ContextReferences ==
    \A i \in 1..Len(tasks) :
        /\ (InInvocation(i) \/ InFeed(i))
              => /\ tasks[i].current_request = tasks[i].call
                 /\ tasks[i].current_response = tasks[i].call
        /\ tasks[i].pc = "done"
              => /\ tasks[i].current_request = NewTask(tasks[i].frame).current_request
                 /\ tasks[i].current_response = NewTask(tasks[i].frame).current_response

\* C37: for integers v and c the comparison constraints accept exactly
\* what they mean: Gt(c) accepts v iff v > c, Ge(c) iff v >= c, Lt(c) iff
\* v < c, Le(c) iff v <= c; a rejected value raises, an accepted one does
\* not.
C37_ComparisonsExact ==
    vs.pc = "checked"
    => LET accepts == IF vs.constraint = "Gt" THEN vs.value > vs.bound
                      ELSE IF vs.constraint = "Ge" THEN vs.value >= vs.bound
                      ELSE IF vs.constraint = "Lt" THEN vs.value < vs.bound
                      ELSE vs.value <= vs.bound
       IN  (vs.raised = "none") <=> accepts

\* C38: for a record without return_all_errors validation stops at the
\* first failing validator: no validator after the one that failed is run,
\* and the SwillValidationError raised carries exactly one descriptor.
C38_FirstFailureStops ==
    (vs.pc = "validated" /\ ~vs.return_all_errors)
    => LET ran == vs.result.ran
       IN  /\ \A k \in 1..Len(ran) : \A j \in (k + 1)..Len(ran) :
                   ran[k].failed => ran[j].validator = ran[k].validator
           /\ vs.result.raised # "none" => Len(vs.result.exceptions) = 1

\* The dispatch task i of a new call leaves before_request because the
\* hook raised or because processing the opening frame raised.
OpeningRaises(i) ==
    /\ tasks[i].role = "call"
    /\ tasks[i].pc = "before_request"
    /\ tasks'[i].pc # "before_request"
    /\ ~tasks[i].cancel
    /\ \/ faults' > faults
       \/ process_message(calls[tasks[i].call], tasks[i].frame).out = "raise"

\* C39: when before_request or the processing of the opening frame raises
\* for a new call, the step enqueues exactly one frame, an ERROR frame
\* with the seq of the opening frame, removes the key of the call and
\* enters after_request for the first time with the handler not invoked;
\* afterwards the handler is not invoked, after_request is not entered
\* again and the dispatch enqueues no further frame.
C39_OpeningFailure ==
    [][\A i \in 1..Len(tasks) :
         /\ OpeningRaises(i)
            => LET c == tasks[i].call
               IN  /\ calls'[c].invoked = 0
                   /\ Len(enqueued') = Len(enqueued) + 1
                   /\ enqueued'[Len(enqueued')].type = "ERROR"
                   /\ enqueued'[Len(enqueued')].seq = tasks[i].frame.seq
                   /\ enqueued'[Len(enqueued')].call = c
                   /\ requests'[Key(c)] = None
                   /\ calls[c].after_request = 0
                   /\ calls'[c].after_request = 1
                   /\ tasks'[i].pc = "after_request"
         /\ (tasks[i].role = "call" /\ calls[tasks[i].call].after_request >= 1)
            => LET c == tasks[i].call
               IN  /\ calls'[c].invoked = calls[c].invoked
                   /\ calls'[c].after_request = calls[c].after_request
                   /\ tasks'[i] # tasks[i] => enqueued' = enqueued]_vars

\* A call whose opening frame raised in processing has ended: its two
\* hooks ran, its handler did not, its one frame is the ERROR frame and
\* its key is free.
C39_Witness ==
    \E c \in Calls :
        /\ calls[c].raised
        /\ calls[c].invoked = 0
        /\ faults = 0
        /\ calls[c].hooks = <<"before_request", "after_request">>
        /\ Len(FramesOf(c)) = 1
        /\ FramesOf(c)[1].type = "ERROR"
        /\ requests[Key(c)] = None
        /\ DispatchTask(c).pc = "done"

\* The positions of the send queue's history that the frames of MaxFrames
\* dispatches can fill.
SendPositions == 1..(MaxFrames * (MaxYield + 3))

\* C40: under weak fairness of the connection loop and its send task, every
\* frame enqueued on the send queue is eventually written to the
\* transport unless the connection is closed by a disconnect, and each
\* write is of the oldest frame not yet written, so that no frame is
\* written twice, whatever the tasks enqueue meanwhile.
C40_EveryFrameWritten ==
    /\ \A k \in SendPositions :
           (Len(enqueued) >= k) ~> (Len(written) >= k \/ conn = "closed")
    /\ [][written' # written
           => written' = Append(written, enqueued[Len(written) + 1])]_vars

\* Two calls have each had a frame written, nothing is waiting, and a
\* handler is still running on the open connection.
C40_Witness ==
    /\ conn = "open"
    /\ Len(enqueued) >= 3
    /\ written = enqueued
    /\ \E j, k \in 1..Len(written) : written[j].call # written[k].call
    /\ \E i \in 1..Len(tasks) : tasks[i].pc = "handler"

====
